---- MODULE Spec2Model ----
(***************************************************************************)
(* Inheritance-chain resolution (JavaCodeParser.parse) and diagram text    *)
(* generation (PlantUMLGenerator) of java-class-diagram-view, driven by    *)
(* the generateClassDiagram command handler.                               *)
(* px holds the last application of one of the pure functions of the two   *)
(* classes (member rendering, javap text parsing) with its arguments.      *)
(* tmpDir and reqs are the temp directory of parseClass and the requests   *)
(* that share it when the command is invoked while a request is running.   *)
(*                                                                         *)
(* A class name is a sequence of its dot-separated segments:               *)
(*   "java.lang.Exception" is <<"java","lang","Exception">>, "B" is <<"B">>*)
(* and an unset name (undefined or '') is <<>>.                            *)
(***************************************************************************)
EXTENDS Integers, Sequences, FiniteSets, TLC

VARIABLES files, javapOk, rootFile, reqState, rejectedBy, stack, heap,
          result, calls, lookups, truncated, processedClasses, puml, saved,
          errorShown, px, tmpDir, reqs

vars == <<files, javapOk, rootFile, reqState, rejectedBy, stack, heap,
          result, calls, lookups, truncated, processedClasses, puml, saved,
          errorShown, px, tmpDir, reqs>>

\* Number of descriptors the model keeps for one request; a walk that goes
\* on beyond it keeps running but its further descriptors are not recorded.
MaxObjs == 13

\* The depth limit written in parseSystemClassWithParents.
DepthBound == 10

Unset == <<>>
NoObj == 0

----------------------------------------------------------------------------
(* Names *)

\* className.includes('.')
includesDot(n) == Len(n) > 1

\* className.startsWith('java.') || className.startsWith('javax.')
startsWithJava(n) == Len(n) > 1 /\ n[1] \in {"java", "javax"}

\* PlantUMLGenerator.getSimpleClassName, also split('.').pop()
getSimpleClassName(n) == IF n = Unset THEN "" ELSE n[Len(n)]

\* fullClassName.substring(0, fullClassName.lastIndexOf('.'))
packageOf(n) == IF Len(n) > 1 THEN SubSeq(n, 1, Len(n) - 1) ELSE Unset

JavaLangObject == <<"java", "lang", "Object">>
JavaAppletApplet == <<"java", "applet", "Applet">>

\* The list with the unprefixed attempt moved behind java.lang.
commonPackages_langFirst ==
    << <<"java", "lang">>, <<>>, <<"java", "util">>, <<"java", "io">>,
       <<"java", "applet">>, <<"javax", "swing">>, <<"java", "awt">>,
       <<"java", "net">>, <<"java", "sql">>, <<"javax", "servlet">>,
       <<"java", "math">>, <<"java", "security">>, <<"java", "text">>,
       <<"java", "time">> >>

\* The list without its java.lang entry.
commonPackages_noLang ==
    << <<>>, <<"java", "util">>, <<"java", "io">>,
       <<"java", "applet">>, <<"javax", "swing">>, <<"java", "awt">>,
       <<"java", "net">>, <<"java", "sql">>, <<"javax", "servlet">>,
       <<"java", "math">>, <<"java", "security">>, <<"java", "text">>,
       <<"java", "time">> >>

commonPackages ==
    << <<>>,
       <<"java", "lang">>, <<"java", "util">>, <<"java", "io">>,
       <<"java", "applet">>, <<"javax", "swing">>, <<"java", "awt">>,
       <<"java", "net">>, <<"java", "sql">>, <<"javax", "servlet">>,
       <<"java", "math">>, <<"java", "security">>, <<"java", "text">>,
       <<"java", "time">> >>

----------------------------------------------------------------------------
(* The collaborators: sibling files and their structured parse, javap *)

\* The content of a sibling file, given by what the structured parse makes
\* of it: absent, unparsable ("bad") or the JSON record Parser prints.
File(state, name, mods, ext, impl) ==
    [state |-> state, name |-> name, modifiers |-> mods, extends |-> ext,
     implements |-> impl]

NoFile == File("absent", "", <<>>, Unset, <<>>)
BadFile == File("bad", "", <<>>, Unset, <<>>)

ImplChoices == { <<>>, << <<"I">> >>, << <<"I">>, <<"J">> >> }

AContents ==
    {NoFile, BadFile} \cup
    { File("ok", "A", <<"public">>, e, i) :
        e \in {Unset, <<"A">>, <<"B">>, <<"Exception">>, <<"Applet">>,
               <<"lib", "P">>, JavaAppletApplet},
        i \in ImplChoices }
    \cup { File("ok", "P", <<"public">>, <<"lib", "P">>, <<>>),
           File("ok", "Exception", <<"public">>, <<"Exception">>, <<>>) }

BContents ==
    {NoFile, BadFile} \cup
    { File("ok", "B", <<"public", "abstract">>, e, i) :
        e \in {Unset, <<"A">>, <<"Exception">>, <<"lib", "P">>},
        i \in { <<>>, << <<"I">> >> } }
    \cup { File("ok", "C", <<"public">>, Unset, <<>>) }

FileNames == { <<"A">>, <<"B">> }

FileWorlds ==
    { w \in [FileNames -> AContents \cup BContents] :
        w[<<"A">>] \in AContents /\ w[<<"B">>] \in BContents }

\* The class-declaration line javap prints for a name: its leading
\* modifiers and its extends clause (Unset when the line has none).
JavapNames ==
    { <<"Exception">>, <<"java", "lang", "Exception">>,
      <<"java", "lang", "Throwable">>, JavaAppletApplet,
      <<"lib", "P">>, <<"lib", "Q">> }

JavapLine(n) ==
    CASE n = <<"Exception">> ->
            [mods |-> <<"public">>, ext |-> JavaLangObject]
      [] n = <<"java", "lang", "Exception">> ->
            [mods |-> <<"public">>, ext |-> <<"java", "lang", "Throwable">>]
      [] n = <<"java", "lang", "Throwable">> ->
            [mods |-> <<"public">>, ext |-> Unset]
      [] n = JavaAppletApplet ->
            [mods |-> <<"public">>, ext |-> <<"java", "awt", "Panel">>]
      [] n = <<"lib", "P">> ->
            [mods |-> <<"public", "abstract">>, ext |-> <<"lib", "Q">>]
      [] n = <<"lib", "Q">> ->
            [mods |-> <<"public">>, ext |-> <<"lib", "P">>]
      [] OTHER -> [mods |-> <<>>, ext |-> Unset]

\* execAsync(`javap -c ${name}`) resolves (TRUE) or rejects (FALSE)
execJavap(n) == n \in javapOk

----------------------------------------------------------------------------
(* Descriptors (ClassInfo) *)

\* srcExtends, origin and parentVia are history fields: the extends value
\* first given to the descriptor, which resolver created the descriptor and
\* which resolver set its parentClass.
ClassInfo(name, pkg, mods, ext, impl, path, origin) ==
    [name |-> name, packageName |-> pkg, modifiers |-> mods, extends |-> ext,
     implements |-> impl, filePath |-> path, parentClass |-> NoObj,
     srcExtends |-> ext, origin |-> origin, parentVia |-> "none"]

\* JSON.parse(stdout) of parseClass, then classInfo.filePath = filePath
fromSource(f) ==
    ClassInfo(f.name, Unset, f.modifiers, f.extends, f.implements, TRUE,
              "source")

\* JavaCodeParser.parseJavapOutput: the shape of the class-declaration line
parseJavapOutput(line, fullClassName) ==
    ClassInfo(getSimpleClassName(fullClassName), packageOf(fullClassName),
              IF line.ext # Unset THEN line.mods ELSE <<>>,
              line.ext, <<>>, FALSE, "javap")

RECURSIVE chainOf(_, _, _)
\* The ids of the parentClass chain of id, the descriptor itself first
\* (n bounds the walk by the number of descriptors).
chainOf(h, id, n) ==
    IF id = NoObj \/ n = 0 THEN <<>>
    ELSE <<id>> \o chainOf(h, h[id].parentClass, n - 1)

Chain(h, id) == chainOf(h, id, Len(h))

----------------------------------------------------------------------------
(* JavaCodeParser.parse: one frame per (recursive) call *)

Frame(src, reuse) ==
    [pc |-> "parseClass", ci |-> reuse, src |-> src, fullClassName |-> Unset,
     found |-> FALSE, idx |-> 0, cur |-> NoObj, pname |-> Unset]

Top == stack[Len(stack)]
setTop(stk, f) == [stk EXCEPT ![Len(stk)] = f]
pop(stk) == SubSeq(stk, 1, Len(stk) - 1)

Full(h) == Len(h) >= MaxObjs

\* No request is running and none has run.
NoRequest ==
    /\ rootFile = Unset
    /\ reqState = "idle"
    /\ rejectedBy = "none"
    /\ stack = <<>>
    /\ heap = <<>>
    /\ result = NoObj
    /\ calls = <<>>
    /\ lookups = <<>>
    /\ truncated = FALSE
    /\ processedClasses = {}
    /\ puml = [made |-> FALSE, defs |-> <<>>, rels |-> <<>>, before |-> {}]
    /\ saved = FALSE
    /\ errorShown = FALSE

\* The value of px while no function has been applied.
NoCall == [op |-> "none"]

\* Timestamps Date.now() gives to the requests that run together.
Clock == {1, 2}

\* The temp directory of parseClass before its first use: it does not exist.
NoTempDir ==
    [exists |-> FALSE, temp |-> [t \in Clock |-> NoFile], parserDir |-> FALSE,
     parserJava |-> FALSE, parserClass |-> FALSE]

Init ==
    /\ files \in FileWorlds
    /\ javapOk \in SUBSET JavapNames
    /\ NoRequest
    /\ px = NoCall
    /\ tmpDir = NoTempDir
    /\ reqs = <<>>

\* The command handler up to its call of JavaCodeParser.parse: it reads the
\* selected file and passes its text and path.
Request ==
    /\ reqState = "idle"
    /\ \E f \in FileNames :
         /\ files[f].state # "absent"
         /\ rootFile' = f
         /\ stack' = << Frame(files[f], NoObj) >>
    /\ reqState' = "parsing"
    /\ UNCHANGED <<lookups, px, tmpDir, reqs>>
    /\ UNCHANGED <<files, javapOk, rejectedBy, heap, result, calls, truncated,
                   processedClasses, puml, saved, errorShown>>

\* parse without the catch of line 187: the rejection of a recursive call
\* passes through every calling frame.
rejectParse_noCatch(stk) == [stack |-> <<>>, state |-> "rejected"]

\* A rejection of parseClass leaves parse through line 51; in a recursive
\* call it is the rejection of the parse awaited at line 61, which the catch
\* of line 187 of the calling frame absorbs.
rejectParse(stk) ==
    IF Len(stk) = 1
    THEN [stack |-> <<>>, state |-> "rejected"]
    ELSE [stack |-> setTop(pop(stk), [stk[Len(stk) - 1] EXCEPT !.pc = "return"]),
          state |-> "parsing"]

\* A parse that looks for an ancestor whatever classInfo.extends holds.
afterParseClass_always(d) == "findProject"

\* Line 57: if (classInfo.extends) { ... } ; else line 192 follows.
afterParseClass(d) == IF d.extends # Unset THEN "findProject" ELSE "return"

\* await this.parseClass(javaCode), then lines 52-57
ParseClass ==
    /\ reqState = "parsing"
    /\ stack # <<>>
    /\ Top.pc = "parseClass"
    /\ IF Top.src.state # "ok"
       THEN LET r == rejectParse(stack) IN
            /\ stack' = r.stack
            /\ reqState' = r.state
            /\ rejectedBy' = IF r.state = "rejected" THEN "parse" ELSE rejectedBy
            /\ UNCHANGED heap
       ELSE LET d == fromSource(Top.src)
                id == IF Top.ci # NoObj THEN Top.ci ELSE Len(heap) + 1
            IN
            /\ heap' = IF Top.ci # NoObj THEN [heap EXCEPT ![id] = d]
                       ELSE Append(heap, d)
            /\ stack' = setTop(stack,
                   [Top EXCEPT !.ci = id,
                               !.pc = afterParseClass(d)])
            /\ UNCHANGED <<reqState, rejectedBy>>
    /\ UNCHANGED <<lookups, px, tmpDir, reqs>>
    /\ UNCHANGED <<files, javapOk, rootFile, result, calls, truncated,
                   processedClasses, puml, saved, errorShown>>

\* findProjectClass called without a file path (line 199): nothing is found.
findProjectClass_noPath(className) == NoFile

\* JavaCodeParser.findProjectClass: the text of <className>.java of the
\* directory of the current file, NoFile when there is none.
findProjectClass(className) ==
    IF className \in FileNames THEN files[className] ELSE NoFile

\* One lookup of a sibling file on behalf of descriptor link, with its outcome.
logLookup(log, h, className, link) ==
    IF Full(h) THEN log
    ELSE Append(log, [name |-> className, link |-> link,
                      found |-> findProjectClass(className).state # "absent"])

\* Where the system fallback starts for a frame (lines 67-122): the Applet
\* special case, the direct attempt on a dotted name, else the package loop.
startFallback(f, ext) ==
    [f EXCEPT !.fullClassName = ext,
              !.found = FALSE,
              !.idx = 1,
              !.pc = IF ext = <<"Applet">> THEN "applet"
                     ELSE IF includesDot(ext) THEN "direct"
                     ELSE "loop"]

\* Lines 59-67: the sibling file is looked up; when found, parse is called on
\* it (line 61), else the system fallback starts.  packageName is never set by
\* parseClass, so fullClassName is classInfo.extends.
FindProjectClass ==
    /\ reqState = "parsing"
    /\ stack # <<>>
    /\ Top.pc = "findProject"
    /\ LET ext == heap[Top.ci].extends
           code == findProjectClass(ext)
       IN
       IF code.state # "absent"
       THEN IF Full(heap)
            THEN /\ stack' = setTop(stack, Frame(code, Top.ci))
                 /\ truncated' = TRUE
            ELSE /\ stack' = Append(setTop(stack, [Top EXCEPT !.pc = "awaitParent"]),
                                    Frame(code, NoObj))
                 /\ UNCHANGED truncated
       ELSE /\ stack' = setTop(stack, startFallback(Top, ext))
            /\ UNCHANGED truncated
    /\ lookups' = logLookup(lookups, heap, heap[Top.ci].extends, Top.ci)
    /\ UNCHANGED <<px, tmpDir, reqs>>
    /\ UNCHANGED <<files, javapOk, rootFile, reqState, rejectedBy, heap, result,
                   calls, processedClasses, puml, saved, errorShown>>

\* return classInfo (line 192): to the handler for the root call, to line 61
\* of the calling frame otherwise, which sets parentClass (lines 62-64).
Return ==
    /\ reqState = "parsing"
    /\ stack # <<>>
    /\ Top.pc = "return"
    /\ IF Len(stack) = 1
       THEN /\ result' = Top.ci
            /\ reqState' = "parsed"
            /\ stack' = <<>>
            /\ UNCHANGED heap
       ELSE LET caller == stack[Len(stack) - 1] IN
            /\ heap' = [heap EXCEPT ![caller.ci].parentClass = Top.ci,
                                    ![caller.ci].parentVia = "project"]
            /\ stack' = setTop(pop(stack), [caller EXCEPT !.pc = "return"])
            /\ UNCHANGED <<result, reqState>>
    /\ UNCHANGED <<lookups, px, tmpDir, reqs>>
    /\ UNCHANGED <<files, javapOk, rootFile, rejectedBy, calls, truncated,
                   processedClasses, puml, saved, errorShown>>

----------------------------------------------------------------------------
(* The system fallback (lines 67-160) and the ancestor walk (162-182) *)

\* One call of javap on behalf of descriptor link, with its outcome.
logCall(log, h, n, link, phase) ==
    IF Full(h) THEN log
    ELSE Append(log, [name |-> n, ok |-> execJavap(n), link |-> link,
                      phase |-> phase])

\* A catch block that keeps the name of the failed candidate.
javapFailed_keepsName(h, id, n) == [h EXCEPT ![id].extends = n]

\* catch (e) { error = e; } of lines 106, 117 and 152, and the catch of the
\* walk (line 177): nothing of the descriptor is assigned.
javapFailed(h, id, n) == h

\* A resolver that keeps the descriptor of a name and hands it out again.
setSystemParent_shared(h, id, n, rewrite) ==
    LET known == { k \in 1..Len(h) :
                     /\ h[k].origin = "javap"
                     /\ h[k].name = getSimpleClassName(n)
                     /\ h[k].packageName = packageOf(n) }
    IN
    IF Full(h) THEN h
    ELSE IF known # {}
    THEN [h EXCEPT ![id].parentClass = CHOOSE k \in known : TRUE,
                   ![id].parentVia = "system",
                   ![id].extends = IF rewrite THEN n ELSE @]
    ELSE [Append(h, parseJavapOutput(JavapLine(n), n))
            EXCEPT ![id].parentClass = Len(h) + 1,
                   ![id].parentVia = "system",
                   ![id].extends = IF rewrite THEN n ELSE @]

\* classInfo.parentClass = this.parseJavapOutput(stdout, name), for the
\* descriptor id; rewrite tells whether classInfo.extends = name follows.
setSystemParent(h, id, n, rewrite) ==
    IF Full(h) THEN h
    ELSE [Append(h, parseJavapOutput(JavapLine(n), n))
            EXCEPT ![id].parentClass = Len(h) + 1,
                   ![id].parentVia = "system",
                   ![id].extends = IF rewrite THEN n ELSE @]

\* A walk that goes on to the terminal root type.
walkContinues_toObject(parentClassName) == parentClassName # Unset

\* Line 165: while (parentClassName && parentClassName !== 'java.lang.Object')
walkContinues(parentClassName) ==
    parentClassName # Unset /\ parentClassName # JavaLangObject

\* Lines 158-182 up to the first await of the walk: nothing found throws to
\* the catch of line 183; a found parent with an extends starts the walk.
afterFallback(h, f) ==
    LET p == h[f.ci].parentClass IN
    IF ~f.found \/ p = NoObj \/ h[p].extends = Unset
    THEN [f EXCEPT !.pc = "return"]
    ELSE [f EXCEPT !.cur = p,
                   !.pname = h[p].extends,
                   !.pc = IF walkContinues(h[p].extends) THEN "walk"
                          ELSE "return"]

\* Lines 98-108: the Applet special case.
TryApplet ==
    /\ reqState = "parsing"
    /\ stack # <<>>
    /\ Top.pc = "applet"
    /\ LET ok == execJavap(JavaAppletApplet)
           h2 == IF ok THEN setSystemParent(heap, Top.ci, JavaAppletApplet, TRUE)
                 ELSE javapFailed(heap, Top.ci, JavaAppletApplet)
           f2 == [Top EXCEPT !.found = ok]
       IN
       /\ heap' = h2
       /\ calls' = logCall(calls, heap, JavaAppletApplet, Top.ci, "applet")
       /\ truncated' = (truncated \/ Full(heap))
       /\ stack' = setTop(stack,
              IF includesDot(f2.fullClassName) THEN [f2 EXCEPT !.pc = "direct"]
              ELSE IF ~f2.found THEN [f2 EXCEPT !.pc = "loop"]
              ELSE afterFallback(h2, f2))
    /\ UNCHANGED <<lookups, px, tmpDir, reqs>>
    /\ UNCHANGED <<files, javapOk, rootFile, reqState, rejectedBy, result,
                   processedClasses, puml, saved, errorShown>>

\* Lines 111-119: the direct attempt on a name that carries a package.
TryDirect ==
    /\ reqState = "parsing"
    /\ stack # <<>>
    /\ Top.pc = "direct"
    /\ LET n == Top.fullClassName
           ok == execJavap(n)
           h2 == IF ok THEN setSystemParent(heap, Top.ci, n, FALSE)
                 ELSE javapFailed(heap, Top.ci, n)
           f2 == [Top EXCEPT !.found = (Top.found \/ ok)]
       IN
       /\ heap' = h2
       /\ calls' = logCall(calls, heap, n, Top.ci, "direct")
       /\ truncated' = (truncated \/ Full(heap))
       /\ stack' = setTop(stack,
              IF ~f2.found THEN [f2 EXCEPT !.pc = "loop"]
              ELSE afterFallback(h2, f2))
    /\ UNCHANGED <<lookups, px, tmpDir, reqs>>
    /\ UNCHANGED <<files, javapOk, rootFile, reqState, rejectedBy, result,
                   processedClasses, puml, saved, errorShown>>

\* Lines 136-141: the name the loop tries for a prefix.
classNameToTry(pkg, ext) ==
    IF pkg # <<>> THEN pkg \o <<getSimpleClassName(ext)>> ELSE ext

\* A loop without the break of line 149.
loopEnds_noBreak(ok, i) == i + 1 > Len(commonPackages)

\* Lines 128 and 149: the loop ends at the first success (break) or after
\* the last prefix.
loopEnds(ok, i) == ok \/ i + 1 > Len(commonPackages)

\* Lines 128-155: one iteration of the package loop that reaches javap (the
\* iteration of the empty prefix is skipped for a dotted name, line 131).
TryPackage ==
    /\ reqState = "parsing"
    /\ stack # <<>>
    /\ Top.pc = "loop"
    /\ LET ext == heap[Top.ci].extends
           i == IF includesDot(ext) /\ commonPackages[Top.idx] = <<>>
                THEN Top.idx + 1 ELSE Top.idx
           n == classNameToTry(commonPackages[i], ext)
           ok == execJavap(n)
           h2 == IF ok THEN setSystemParent(heap, Top.ci, n, TRUE)
                 ELSE javapFailed(heap, Top.ci, n)
           f2 == [Top EXCEPT !.found = ok, !.idx = i + 1]
       IN
       /\ heap' = h2
       /\ calls' = logCall(calls, heap, n, Top.ci, "loop")
       /\ truncated' = (truncated \/ Full(heap))
       /\ stack' = setTop(stack,
              IF loopEnds(ok, i) THEN afterFallback(h2, f2)
              ELSE f2)
    /\ UNCHANGED <<lookups, px, tmpDir, reqs>>
    /\ UNCHANGED <<files, javapOk, rootFile, reqState, rejectedBy, result,
                   processedClasses, puml, saved, errorShown>>

\* Lines 168-181: one iteration of the walk over the system ancestors.
WalkParent ==
    /\ reqState = "parsing"
    /\ stack # <<>>
    /\ Top.pc = "walk"
    /\ LET n == Top.pname
           ok == execJavap(n)
           h2 == IF ok THEN setSystemParent(heap, Top.cur, n, FALSE)
                 ELSE javapFailed(heap, Top.cur, n)
           next == JavapLine(n).ext
       IN
       /\ heap' = h2
       /\ calls' = logCall(calls, heap, n, Top.cur, "walk")
       /\ truncated' = (truncated \/ Full(heap))
       /\ stack' = setTop(stack,
              IF ~ok THEN [Top EXCEPT !.pc = "return"]
              ELSE [Top EXCEPT !.pname = next,
                               !.cur = IF Full(heap) THEN @ ELSE Len(heap) + 1,
                               !.pc = IF walkContinues(next)
                                      THEN "walk" ELSE "return"])
    /\ UNCHANGED <<lookups, px, tmpDir, reqs>>
    /\ UNCHANGED <<files, javapOk, rootFile, reqState, rejectedBy, result,
                   processedClasses, puml, saved, errorShown>>

----------------------------------------------------------------------------
(* PlantUMLGenerator: the diagram text, as its sequence of definition      *)
(* blocks followed by its sequence of relationship lines                   *)

Range(q) == { q[i] : i \in 1..Len(q) }

Block(kind, name, tag, impl, body) ==
    [kind |-> kind, name |-> name, tag |-> tag, impl |-> impl, body |-> body]

\* classInfo.packageName?.startsWith('java.') || ...startsWith('javax.')
isSystemPackage(pkg) == Len(pkg) >= 2 /\ pkg[1] \in {"java", "javax"}

\* PlantUMLGenerator.generateClassDefinition
generateClassDefinition(ci) ==
    LET isSystemClass == isSystemPackage(ci.packageName) IN
    Block(IF "abstract" \in Range(ci.modifiers) THEN "abstract class" ELSE "class",
          ci.name, "",
          IF ~isSystemClass THEN ci.implements ELSE <<>>,
          IF isSystemClass THEN "..System Class.." ELSE "members")

\* extends.includes('java.applet.Applet') || extends.endsWith('.Applet')
isAppletName(n) ==
    \/ \E i \in 1..(Len(n) - 2) : SubSeq(n, i, i + 2) = JavaAppletApplet
    \/ Len(n) > 1 /\ n[Len(n)] = "Applet"

\* The empty class without the stereotype of lines 61-63.
placeholderDefinition_untagged(ext) ==
    Block("class", getSimpleClassName(ext), "", <<>>, "empty")

\* Lines 55-67: the empty class of a parent that has no descriptor.
placeholderDefinition(ext) ==
    Block("class", getSimpleClassName(ext),
          IF isAppletName(ext) THEN "<<system>>" ELSE "", <<>>, "empty")

RECURSIVE interfaceDefinitions_noCheck(_, _, _)
\* The forEach without the processedClasses test of line 72.
interfaceDefinitions_noCheck(impl, i, acc) ==
    IF i > Len(impl) THEN acc
    ELSE LET n == getSimpleClassName(impl[i]) IN
         interfaceDefinitions_noCheck(impl, i + 1,
             [text |-> Append(acc.text, Block("interface", n, "", <<>>, "empty")),
              processed |-> acc.processed \cup {n}])

RECURSIVE interfaceDefinitions(_, _, _)
\* Lines 70-77: the forEach over classInfo.implements from entry i on.
interfaceDefinitions(impl, i, acc) ==
    IF i > Len(impl) THEN acc
    ELSE LET n == getSimpleClassName(impl[i]) IN
         IF n \notin acc.processed
         THEN interfaceDefinitions(impl, i + 1,
                  [text |-> Append(acc.text, Block("interface", n, "", <<>>, "empty")),
                   processed |-> acc.processed \cup {n}])
         ELSE interfaceDefinitions(impl, i + 1, acc)

RECURSIVE generateAllClassDefinitionsRecursive(_, _, _, _)
\* PlantUMLGenerator.generateAllClassDefinitionsRecursive; acc carries the
\* text produced so far and processedClasses, n bounds the recursion.
generateAllClassDefinitionsRecursive(h, id, acc, n) ==
    LET ci == h[id]
        a1 == IF ci.name \notin acc.processed
              THEN [text |-> Append(acc.text, generateClassDefinition(ci)),
                    processed |-> acc.processed \cup {ci.name}]
              ELSE acc
        a2 == IF ci.parentClass # NoObj /\ n > 0
              THEN generateAllClassDefinitionsRecursive(h, ci.parentClass, a1, n - 1)
              ELSE IF ci.parentClass = NoObj /\ ci.extends # Unset
                      /\ getSimpleClassName(ci.extends) \notin a1.processed
              THEN [text |-> Append(a1.text, placeholderDefinition(ci.extends)),
                    processed |-> a1.processed \cup {getSimpleClassName(ci.extends)}]
              ELSE a1
    IN interfaceDefinitions(ci.implements, 1, a2)

Line(sup, arrow, sub) == [sup |-> sup, arrow |-> arrow, sub |-> sub]

\* The arrow without the test of line 90, in its two forms.
extendsArrow_alwaysSolid(ext) == "<|--"
extendsArrow_alwaysDashed(ext) == "<|.."

\* Lines 89-94: the arrow of an extends line.
extendsArrow(ext) == IF startsWithJava(ext) THEN "<|.." ELSE "<|--"

\* A line for the first entry of classInfo.implements only.
implementsLines_firstOnly(ci) ==
    [i \in 1..(IF Len(ci.implements) > 0 THEN 1 ELSE 0) |->
        [sup |-> getSimpleClassName(ci.implements[i]), arrow |-> "<|..",
         sub |-> ci.name]]

\* Lines 97-101: one line per entry of classInfo.implements.
implementsLines(ci) ==
    [i \in 1..Len(ci.implements) |->
        Line(getSimpleClassName(ci.implements[i]), "<|..", ci.name)]

RECURSIVE generateAllRelationshipsRecursive(_, _, _)
\* PlantUMLGenerator.generateAllRelationshipsRecursive
generateAllRelationshipsRecursive(h, id, n) ==
    LET ci == h[id] IN
    (IF ci.extends # Unset
     THEN << Line(getSimpleClassName(ci.extends), extendsArrow(ci.extends), ci.name) >>
     ELSE <<>>)
    \o implementsLines(ci)
    \o (IF ci.parentClass # NoObj /\ n > 0
        THEN generateAllRelationshipsRecursive(h, ci.parentClass, n - 1)
        ELSE <<>>)

\* A renderer that keeps the names of the diagram before.
clearProcessed_keep(p) == p

\* this.processedClasses.clear()
clearProcessed(p) == {}

\* PlantUMLGenerator.generateClassDiagram: the text and the processedClasses
\* it leaves behind.
generateClassDiagram(h, id, p) ==
    LET d == generateAllClassDefinitionsRecursive(h, id,
                 [text |-> <<>>, processed |-> clearProcessed(p)], Len(h))
    IN [defs |-> d.text,
        rels |-> generateAllRelationshipsRecursive(h, id, Len(h)),
        processed |-> d.processed]

----------------------------------------------------------------------------
(* The command handler after parse *)

\* Line 54: const puml = PlantUMLGenerator.generateClassDiagram(classInfo)
Generate ==
    /\ reqState = "parsed"
    /\ LET g == generateClassDiagram(heap, result, processedClasses) IN
       /\ puml' = [made |-> TRUE, defs |-> g.defs, rels |-> g.rels,
                   before |-> processedClasses]
       /\ processedClasses' = g.processed
    /\ reqState' = "generated"
    /\ UNCHANGED <<lookups, px, tmpDir, reqs>>
    /\ UNCHANGED <<files, javapOk, rootFile, rejectedBy, stack, heap, result,
                   calls, truncated, saved, errorShown>>

\* Lines 57-77: saveDiagram writes the text, or rejects; a failure of the SVG
\* step is caught on its own and leaves the request successful.
Save ==
    /\ reqState = "generated"
    /\ \E ok \in BOOLEAN :
         /\ saved' = ok
         /\ reqState' = IF ok THEN "done" ELSE "rejected"
         /\ rejectedBy' = IF ok THEN rejectedBy ELSE "save"
    /\ UNCHANGED <<lookups, px, tmpDir, reqs>>
    /\ UNCHANGED <<files, javapOk, rootFile, stack, heap, result, calls,
                   truncated, processedClasses, puml, errorShown>>

\* A catch that swallows the error.
ShowErrorSilently ==
    /\ reqState = "rejected"
    /\ reqState' = "error"
    /\ UNCHANGED <<lookups, px, tmpDir, reqs>>
    /\ UNCHANGED <<files, javapOk, rootFile, rejectedBy, stack, heap, result,
                   calls, truncated, processedClasses, puml, saved, errorShown>>

\* Lines 105-117: the catch of the handler reports the error.
ShowError ==
    /\ reqState = "rejected"
    /\ errorShown' = TRUE
    /\ reqState' = "error"
    /\ UNCHANGED <<lookups, px, tmpDir, reqs>>
    /\ UNCHANGED <<files, javapOk, rootFile, rejectedBy, stack, heap, result,
                   calls, truncated, processedClasses, puml, saved>>

Next ==
    \/ Request
    \/ ParseClass
    \/ FindProjectClass
    \/ TryApplet
    \/ TryDirect
    \/ TryPackage
    \/ WalkParent
    \/ Return
    \/ Generate
    \/ Save
    \/ ShowError

Spec == Init /\ [][Next]_vars

\* Every step of a request is the continuation of an awaited promise or of
\* the running handler: once enabled it is eventually executed.
FairSpec == Spec /\ WF_vars(Next)

TypeOK ==
    /\ reqState \in {"idle", "parsing", "parsed", "generated", "rejected",
                     "done", "error"}
    /\ Len(heap) <= MaxObjs
    /\ result \in 0..Len(heap)

----------------------------------------------------------------------------
(* PlantUMLGenerator: the lines of the members of a class block *)

FieldInfo(name, type, mods) == [name |-> name, type |-> type, modifiers |-> mods]
ParameterInfo(name, type) == [name |-> name, type |-> type]
MethodInfo(name, returnType, mods, params) ==
    [name |-> name, returnType |-> returnType, modifiers |-> mods,
     parameters |-> params]

\* A mapping that takes a member without access modifier for a public one.
getVisibilitySymbol_defaultPublic(modifiers) ==
    IF "private" \in Range(modifiers) THEN "-"
    ELSE IF "protected" \in Range(modifiers) THEN "#"
    ELSE "+"

\* PlantUMLGenerator.getVisibilitySymbol
getVisibilitySymbol(modifiers) ==
    IF "private" \in Range(modifiers) THEN "-"
    ELSE IF "protected" \in Range(modifiers) THEN "#"
    ELSE IF "public" \in Range(modifiers) THEN "+"
    ELSE "~"

\* The line `    ${visibility}${isStatic}${type} ${name}(${params})`; a field
\* line has no parameter list.
MemberLine(vis, isStatic, type, name, params) ==
    [vis |-> vis, static |-> isStatic, type |-> type, name |-> name,
     params |-> params]

\* PlantUMLGenerator.generateField: the text, as its sequence of lines
generateField(field) ==
    << MemberLine(getVisibilitySymbol(field.modifiers),
                  IF "static" \in Range(field.modifiers) THEN "{static} " ELSE "",
                  field.type, field.name, <<>>) >>

hasType(p) == p.type # ""

\* PlantUMLGenerator.generateMethod: no line for a method without a name;
\* parameters without a type are left out.
generateMethod(method) ==
    IF method.name = "" THEN <<>>
    ELSE << MemberLine(getVisibilitySymbol(method.modifiers),
                IF "static" \in Range(method.modifiers) THEN "{static} " ELSE "",
                method.returnType, method.name,
                SelectSeq(method.parameters, hasType)) >>

\* Longest modifier list given to a member.
MaxMods == 3

Keywords == {"public", "protected", "private", "static", "final"}
ModifierLists == UNION { [1..n -> Keywords] : n \in 0..MaxMods }
ParameterLists ==
    { <<>>, << ParameterInfo("", "int") >>,
      << ParameterInfo("s", "String"), ParameterInfo("", "") >> }

\* generateField and generateMethod applied to a field and to a method that
\* carry the same modifier list.
RenderMembers ==
    /\ px = NoCall
    /\ \E mods \in ModifierLists, n \in {"", "run"}, ps \in ParameterLists :
         px' = [op |-> "render",
                modifiers |-> mods,
                field |-> generateField(FieldInfo("count", "int", mods)),
                method |-> generateMethod(MethodInfo(n, "void", mods, ps))]
    /\ UNCHANGED <<files, javapOk, rootFile, reqState, rejectedBy, stack, heap,
                   result, calls, lookups, truncated, processedClasses, puml,
                   saved, errorShown, tmpDir, reqs>>

----------------------------------------------------------------------------
(* Text: a string is the sequence of its characters, so that split, includes, *)
(* trim and the regular expressions act on a line as they do in the code      *)

SP == <<" ">>
DOT == <<".">>
LPAR == <<"(">>
RPAR == <<")">>
COMMA == <<",">>
SEMI == <<";">>
EmptyString == <<>>

s_public == <<"p", "u", "b", "l", "i", "c">>
s_protected == <<"p", "r", "o", "t", "e", "c", "t", "e", "d">>
s_private == <<"p", "r", "i", "v", "a", "t", "e">>
s_static == <<"s", "t", "a", "t", "i", "c">>
s_abstract == <<"a", "b", "s", "t", "r", "a", "c", "t">>
s_final == <<"f", "i", "n", "a", "l">>
s_class == <<"c", "l", "a", "s", "s">>
s_extends == <<"e", "x", "t", "e", "n", "d", "s">>
s_Code == <<"C", "o", "d", "e", ":">>
s_void == <<"v", "o", "i", "d">>
s_int == <<"i", "n", "t">>

\* sub occurs in s at position i
occursAt(s, sub, i) ==
    /\ i >= 1
    /\ i + Len(sub) - 1 <= Len(s)
    /\ SubSeq(s, i, i + Len(sub) - 1) = sub

\* String.prototype.indexOf, positions from 1, 0 when sub does not occur
indexOf(s, sub) ==
    IF \E i \in 1..Len(s) : occursAt(s, sub, i)
    THEN CHOOSE i \in 1..Len(s) :
            /\ occursAt(s, sub, i)
            /\ \A j \in 1..(i - 1) : ~occursAt(s, sub, j)
    ELSE 0

\* String.prototype.includes
includes(s, sub) == sub = <<>> \/ indexOf(s, sub) # 0

\* String.prototype.startsWith
startsWith(s, sub) == occursAt(s, sub, 1)

RECURSIVE trimStart(_)
trimStart(s) == IF s # <<>> /\ Head(s) = " " THEN trimStart(Tail(s)) ELSE s

RECURSIVE trimEnd(_)
trimEnd(s) ==
    IF s # <<>> /\ s[Len(s)] = " " THEN trimEnd(SubSeq(s, 1, Len(s) - 1)) ELSE s

\* String.prototype.trim
trim(s) == trimEnd(trimStart(s))

RECURSIVE split(_, _)
\* String.prototype.split(sep): the pieces between the occurrences of sep;
\* an empty sep gives the characters.
split(s, sep) ==
    IF sep = <<>> THEN [i \in 1..Len(s) |-> <<s[i]>>]
    ELSE LET i == indexOf(s, sep) IN
         IF i = 0 THEN <<s>>
         ELSE <<SubSeq(s, 1, i - 1)>> \o split(SubSeq(s, i + Len(sep), Len(s)), sep)

\* The value Array.prototype.pop returns, '' standing for `pop() || ''`
last(q) == IF q = <<>> THEN EmptyString ELSE q[Len(q)]

RECURSIVE join(_, _)
\* Array.prototype.join
join(q, sep) ==
    IF q = <<>> THEN <<>>
    ELSE IF Len(q) = 1 THEN q[1]
    ELSE q[1] \o sep \o join(Tail(q), sep)

nonEmpty(s) == s # <<>>

----------------------------------------------------------------------------
(* JavaCodeParser: the member lines of a javap text *)

s_run == <<"r", "u", "n">>
s_print == <<"p", "r", "i", "n", "t">>
n_P == <<"P">>
n_lib_P == <<"l", "i", "b", ".", "P">>
n_java_lang_String == <<"j", "a", "v", "a", ".", "l", "a", "n", "g", ".", "S", "t", "r", "i", "n", "g">>
n_java_lang_Exception == <<"j", "a", "v", "a", ".", "l", "a", "n", "g", ".", "E", "x", "c", "e", "p", "t", "i", "o", "n">>

\* The method descriptor of the catch of lines 337-346, also the field
\* descriptor of a line that does not match.
emptyMember == MethodInfo(EmptyString, EmptyString, <<>>, <<>>)

hasDot(part) == includes(part, DOT)

\* JavaCodeParser.extractClassName: the text after the last dot of the first
\* space-separated part that holds a dot, '' when no part does.
extractClassName(line) ==
    LET parts == split(line, SP)
        dotted == SelectSeq(parts, hasDot)
    IN IF dotted = <<>> THEN EmptyString ELSE last(split(dotted[1], DOT))

\* JavaCodeParser.parseParameters
parseParameters(paramString) ==
    IF trim(paramString) = <<>> THEN <<>>
    ELSE LET ps == split(paramString, COMMA) IN
         [i \in 1..Len(ps) |-> ParameterInfo(EmptyString, trim(ps[i]))]

\* line.split('(')[1].split(')')[0], for a line that holds a '('
paramStringOf(line) == split(split(line, LPAR)[2], RPAR)[1]

\* A parser that takes every line for a regular method.
isConstructorLine_never(line) == FALSE

\* Line 298: line.includes(`${this.extractClassName(line)}(`)
isConstructorLine(line) == includes(line, extractClassName(line) \o LPAR)

\* JavaCodeParser.parseJavapMethod; a TypeError on an undefined piece ends in
\* the catch.
parseJavapMethod(line) ==
    IF ~includes(line, LPAR) THEN emptyMember
    ELSE
    LET isConstructor == isConstructorLine(line)
        modifiers == pop(split(trim(split(line, LPAR)[1]), SP))
    IN
    IF isConstructor
    THEN LET classNameWithPackage == last(modifiers)
             className == last(split(classNameWithPackage, DOT))
         IN MethodInfo(className, EmptyString, pop(modifiers),
                       parseParameters(paramStringOf(line)))
    ELSE LET returnType == last(modifiers)
             pieces == split(line, returnType)
         IN IF Len(pieces) < 2 THEN emptyMember
            ELSE MethodInfo(trim(split(trim(pieces[2]), LPAR)[1]), returnType,
                            pop(modifiers), parseParameters(paramStringOf(line)))

\* Line 270: the lines parseJavapOutput takes for a method or a field
isMemberLine(line) ==
    \/ startsWith(line, s_public)
    \/ startsWith(line, s_protected)
    \/ startsWith(line, s_private)
    \/ startsWith(line, s_static)

\* A member as javap declares it: a constructor has no return type and is
\* named by the qualified name of its class.
MemberDecl(mods, ret, name, params, ctor) ==
    [modifiers |-> mods, returnType |-> ret, name |-> name, params |-> params,
     ctor |-> ctor]

\* The line javap prints for a method or a constructor.
javapMethodLine(m) ==
    join(m.modifiers \o (IF m.ctor THEN <<>> ELSE <<m.returnType>>)
           \o << m.name \o LPAR \o join(m.params, COMMA \o SP) \o RPAR \o SEMI >>,
         SP)

CtorModifiers == { <<>>, <<s_public>>, <<s_protected>>, <<s_private>> }
MethodModifiers ==
    CtorModifiers \cup
    { <<s_public, s_static>>, <<s_public, s_final>>,
      <<s_public, s_static, s_final>>, <<s_protected, s_abstract>> }
ClassNames == { n_P, n_lib_P, n_java_lang_Exception }
ParamTypes ==
    { <<>>, <<s_int>>, <<n_java_lang_String>>, <<n_java_lang_String, s_int>>,
      <<s_int, n_lib_P>> }

MemberDecls ==
    { MemberDecl(mods, EmptyString, c, ps, TRUE) :
        mods \in CtorModifiers, c \in ClassNames, ps \in ParamTypes }
    \cup
    { MemberDecl(mods, r, n, ps, FALSE) :
        mods \in MethodModifiers,
        r \in {s_void, s_int, n_java_lang_String, n_lib_P},
        n \in {s_run, s_print}, ps \in ParamTypes }

\* parseJavapMethod applied to the line of a declared member.
ParseJavapMethod ==
    /\ px = NoCall
    /\ \E m \in MemberDecls :
         px' = [op |-> "parseJavapMethod", decl |-> m,
                line |-> javapMethodLine(m),
                out |-> parseJavapMethod(javapMethodLine(m))]
    /\ UNCHANGED <<files, javapOk, rootFile, reqState, rejectedBy, stack, heap,
                   result, calls, lookups, truncated, processedClasses, puml,
                   saved, errorShown, tmpDir, reqs>>

----------------------------------------------------------------------------
(* The command invoked again: requests one after the other *)

\* The handler is invoked again after a request has ended: nothing of the
\* ended request is kept but the static processedClasses of the renderer.
NewRequest ==
    /\ reqState \in {"done", "error"}
    /\ rootFile' = Unset
    /\ reqState' = "idle"
    /\ rejectedBy' = "none"
    /\ stack' = <<>>
    /\ heap' = <<>>
    /\ result' = NoObj
    /\ calls' = <<>>
    /\ lookups' = <<>>
    /\ truncated' = FALSE
    /\ puml' = [made |-> FALSE, defs |-> <<>>, rels |-> <<>>, before |-> {}]
    /\ saved' = FALSE
    /\ errorShown' = FALSE
    /\ UNCHANGED <<files, javapOk, processedClasses, px, tmpDir, reqs>>

\* Requests one after the other, javap being installed or not.
SeqInit ==
    /\ Init
    /\ javapOk \in {{}, JavapNames}

SeqNext == Next \/ NewRequest

SeqSpec == SeqInit /\ [][SeqNext]_vars

----------------------------------------------------------------------------
(* JavaCodeParser.parseClass step by step, for requests that run together: *)
(* every await is a point where the other request may take a step          *)

Outcome(status, ci, defs) == [status |-> status, ci |-> ci, defs |-> defs]
NoOutcome == Outcome("none", <<>>, <<>>)
Rejected == Outcome("rejected", <<>>, <<>>)

\* A request at line 401: its source text and the value of Date.now().
Req(src, ts) ==
    [pc |-> "mkdirTemp", src |-> src, ts |-> ts, stdout |-> NoFile,
     out |-> NoOutcome]

\* The catch of line 541 rethrows; the handler reports and ends the request.
rejectReq(r) == reqs' = [reqs EXCEPT ![r].pc = "done", ![r].out = Rejected]
goto(r, pc) == reqs' = [reqs EXCEPT ![r].pc = pc]

\* Line 405: await fs.promises.mkdir(tempDir, { recursive: true })
MkdirTemp(r) ==
    /\ reqs[r].pc = "mkdirTemp"
    /\ tmpDir' = [tmpDir EXCEPT !.exists = TRUE]
    /\ goto(r, "writeTemp")
    /\ UNCHANGED processedClasses

\* Line 408: await fs.promises.writeFile(tempFile, sourceCode)
WriteTemp(r) ==
    /\ reqs[r].pc = "writeTemp"
    /\ IF tmpDir.exists
       THEN /\ tmpDir' = [tmpDir EXCEPT !.temp[reqs[r].ts] = reqs[r].src]
            /\ goto(r, "mkdirParser")
       ELSE /\ rejectReq(r)
            /\ UNCHANGED tmpDir
    /\ UNCHANGED processedClasses

\* Line 412: await fs.promises.mkdir(parserDir, { recursive: true })
MkdirParser(r) ==
    /\ reqs[r].pc = "mkdirParser"
    /\ tmpDir' = [tmpDir EXCEPT !.exists = TRUE, !.parserDir = TRUE]
    /\ goto(r, "writeParser")
    /\ UNCHANGED processedClasses

\* Line 520: await fs.promises.writeFile(parserFile, parserCode)
WriteParser(r) ==
    /\ reqs[r].pc = "writeParser"
    /\ IF tmpDir.parserDir
       THEN /\ tmpDir' = [tmpDir EXCEPT !.parserJava = TRUE]
            /\ goto(r, "javac")
       ELSE /\ rejectReq(r)
            /\ UNCHANGED tmpDir
    /\ UNCHANGED processedClasses

\* Line 524: javac compiles Parser.java into Parser.class next to it.
Javac(r) ==
    /\ reqs[r].pc = "javac"
    /\ IF tmpDir.parserJava
       THEN /\ tmpDir' = [tmpDir EXCEPT !.parserClass = TRUE]
            /\ goto(r, "java")
       ELSE /\ rejectReq(r)
            /\ UNCHANGED tmpDir
    /\ UNCHANGED processedClasses

\* Lines 528-531: java runs Parser on the temp file and prints the JSON of
\* what that file holds; it exits with 1 when the class or the file is
\* missing or the file cannot be parsed.
Java(r) ==
    /\ reqs[r].pc = "java"
    /\ IF tmpDir.parserClass /\ tmpDir.temp[reqs[r].ts].state = "ok"
       THEN reqs' = [reqs EXCEPT ![r].pc = "rm",
                                 ![r].stdout = tmpDir.temp[reqs[r].ts]]
       ELSE rejectReq(r)
    /\ UNCHANGED <<tmpDir, processedClasses>>

\* Line 535: fs.promises.rm(tempDir, { recursive: true, force: true })
cleanUp(d, ts) == NoTempDir

\* Lines 535-540: the clean-up, then JSON.parse(stdout) is returned.
Rm(r) ==
    /\ reqs[r].pc = "rm"
    /\ tmpDir' = cleanUp(tmpDir, reqs[r].ts)
    /\ goto(r, "parsed")
    /\ UNCHANGED processedClasses

\* The handler renders the descriptor parse returned (here of a class that
\* extends nothing) in one synchronous step.
Render(r) ==
    /\ reqs[r].pc = "parsed"
    /\ LET ci == fromSource(reqs[r].stdout)
           g == generateClassDiagram(<<ci>>, 1, processedClasses)
       IN /\ reqs' = [reqs EXCEPT ![r].pc = "done",
                                  ![r].out = Outcome("ok", <<ci>>, g.defs)]
          /\ processedClasses' = g.processed
    /\ UNCHANGED tmpDir

\* The texts of the requests: two classes without ancestor, one unparsable.
ConcSources ==
    { File("ok", "A", <<"public">>, Unset, << <<"I">> >>),
      File("ok", "B", <<"public", "abstract">>, Unset, <<>>),
      BadFile }

ConcInit ==
    /\ files = [f \in FileNames |-> NoFile]
    /\ javapOk = {}
    /\ NoRequest
    /\ px = NoCall
    /\ tmpDir = NoTempDir
    /\ reqs \in [1..2 -> { Req(src, ts) : src \in ConcSources, ts \in Clock }]

ConcStep(r) ==
    \/ MkdirTemp(r)
    \/ WriteTemp(r)
    \/ MkdirParser(r)
    \/ WriteParser(r)
    \/ Javac(r)
    \/ Java(r)
    \/ Rm(r)
    \/ Render(r)

ConcNext ==
    /\ \E r \in DOMAIN reqs : ConcStep(r)
    /\ UNCHANGED <<files, javapOk, rootFile, reqState, rejectedBy, stack, heap,
                   result, calls, lookups, truncated, puml, saved, errorShown,
                   px>>

ConcSpec == ConcInit /\ [][ConcNext]_vars

----------------------------------------------------------------------------
(* JavaCodeParser.parseJavapOutput on the text javap prints *)

Digits ==
    {"0", "1", "2", "3", "4", "5", "6", "7", "8", "9"}

\* \w of a regular expression
WordChars ==
    {"a", "b", "c", "d", "e", "f", "g", "h", "i", "j", "k", "l", "m", "n", 
     "o", "p", "q", "r", "s", "t", "u", "v", "w", "x", "y", "z", "A", "B", 
     "C", "D", "E", "F", "G", "H", "I", "J", "K", "L", "M", "N", "O", "P", 
     "Q", "R", "S", "T", "U", "V", "W", "X", "Y", "Z", "0", "1", "2", "3", 
     "4", "5", "6", "7", "8", "9", "_"}

\* [\w.$], [\w.<>] and [\w<>]
NameChars == WordChars \cup {".", "$"}
TypeChars == WordChars \cup {".", "<", ">"}
SimpleTypeChars == WordChars \cup {"<", ">"}

RECURSIVE runEnd(_, _, _)
\* The position after the longest run of characters of cs that starts at p.
runEnd(s, p, cs) ==
    IF p <= Len(s) /\ s[p] \in cs THEN runEnd(s, p + 1, cs) ELSE p

\* X+\s+ of a regular expression at p, X a character class: the run is
\* taken whole, for no shorter one is followed by white space; the position
\* after the white space, 0 when there is no match.
runThenSpace(s, p, cs) ==
    LET e == runEnd(s, p, cs)
        w == runEnd(s, e, {" "})
    IN IF e > p /\ w > e THEN w ELSE 0

\* The regular expression of line 257 from the word class at position q on:
\* class\s+([\w.$]+)\s+extends\s+([\w.$]+); the second group, <<>> when
\* there is no match.
classMatchFrom(line, q) ==
    LET a == IF occursAt(line, s_class, q)
             THEN runEnd(line, q + Len(s_class), {" "}) ELSE 0
        b == IF a > q + Len(s_class) THEN runThenSpace(line, a, NameChars) ELSE 0
        c == IF b # 0 /\ occursAt(line, s_extends, b)
             THEN runEnd(line, b + Len(s_extends), {" "}) ELSE 0
        e == IF c > b + Len(s_extends) THEN runEnd(line, c, NameChars) ELSE c
    IN IF b # 0 /\ c > b + Len(s_extends) /\ e > c THEN SubSeq(line, c, e - 1) ELSE <<>>

\* line.match(...) of line 257: the leading modifiers of the expression
\* capture nothing and cannot hold the word class, so the match is the one
\* of the leftmost occurrence of class that matches.
classMatch(line) ==
    LET qs == { q \in 1..Len(line) : classMatchFrom(line, q) # <<>> } IN
    IF qs = {} THEN <<>>
    ELSE classMatchFrom(line, CHOOSE q \in qs : \A r \in qs : q <= r)

FieldModifierWords ==
    { <<"p", "u", "b", "l", "i", "c">>,
      <<"p", "r", "o", "t", "e", "c", "t", "e", "d">>,
      <<"p", "r", "i", "v", "a", "t", "e">>,
      <<"s", "t", "a", "t", "i", "c">>,
      <<"f", "i", "n", "a", "l">>,
      <<"v", "o", "l", "a", "t", "i", "l", "e">>,
      <<"t", "r", "a", "n", "s", "i", "e", "n", "t">> }

RECURSIVE modifierEnds(_, _)
\* The positions (?:public |protected |...)* can end at when it starts at p.
modifierEnds(s, p) ==
    LET ms == { m \in FieldModifierWords : occursAt(s, m \o SP, p) } IN
    IF ms = {} THEN {p}
    ELSE {p} \cup modifierEnds(s, p + Len(CHOOSE m \in ms : TRUE) + 1)

\* (?:[\w.<>]+)\s+([\w<>]+)\s+([\w]+) at q: the two groups as positions.
fieldMatchFrom(s, q) ==
    LET a == runThenSpace(s, q, TypeChars)
        b == IF a # 0 THEN runThenSpace(s, a, SimpleTypeChars) ELSE 0
        t == IF b # 0 THEN runEnd(s, a, SimpleTypeChars) ELSE 0
        e == IF b # 0 THEN runEnd(s, b, WordChars) ELSE 0
    IN IF b # 0 /\ e > b
       THEN [ok |-> TRUE, type |-> SubSeq(s, a, t - 1), name |-> SubSeq(s, b, e - 1)]
       ELSE [ok |-> FALSE, type |-> <<>>, name |-> <<>>]

\* line.match(...) of line 376: the leftmost start, and from it the most
\* modifiers the expression can consume and still match.
fieldMatch(s) ==
    LET good(p) == { q \in modifierEnds(s, p) : fieldMatchFrom(s, q).ok }
        ps == { p \in 1..Len(s) : good(p) # {} }
    IN IF ps = {} THEN [ok |-> FALSE, type |-> <<>>, name |-> <<>>]
       ELSE LET p == CHOOSE x \in ps : \A y \in ps : x <= y
                q == CHOOSE x \in good(p) : \A y \in good(p) : x >= y
            IN fieldMatchFrom(s, q)

\* JavaCodeParser.parseJavapField
parseJavapField(line) ==
    LET m == fieldMatch(line) IN
    IF m.ok
    THEN FieldInfo(m.name, m.type,
                   SelectSeq(split(trim(split(line, m.type)[1]), SP), nonEmpty))
    ELSE FieldInfo(EmptyString, EmptyString, <<>>)

s_java_ == <<"j", "a", "v", "a", ".">>
s_javax_ == <<"j", "a", "v", "a", "x", ".">>
n_java_lang_Throwable == <<"j", "a", "v", "a", ".", "l", "a", "n", "g", ".", "T", "h", "r", "o", "w", "a", "b", "l", "e">>
n_javax_swing_JApplet == <<"j", "a", "v", "a", "x", ".", "s", "w", "i", "n", "g", ".", "J", "A", "p", "p", "l", "e", "t">>
s_count == <<"c", "o", "u", "n", "t">>
s_aload_0 == <<"a", "l", "o", "a", "d", "_", "0">>
s_brace == <<"{">>
s_Compiled == <<"C", "o", "m", "p", "i", "l", "e", "d", " ", "f", "r", "o", "m", " ", "s", "o", "u", "r", "c", "e">>

\* The descriptor parseJavapOutput builds (lines 227-234); extends is ''
\* while no class line has set it.
JavapClassInfo(name, pkg) ==
    [name |-> name, packageName |-> pkg, modifiers |-> <<>>,
     extends |-> EmptyString, fields |-> <<>>, methods |-> <<>>,
     annotations |-> <<>>, inCodeBlock |-> FALSE]

\* fullClassName.substring(0, fullClassName.lastIndexOf('.'))
packageNameOf(fullClassName) ==
    LET parts == split(fullClassName, DOT) IN join(pop(parts), DOT)

\* A parser that parses the members of every class.
isSystemClassName_never(fullClassName) == FALSE

\* Line 224: fullClassName.startsWith('java.') || startsWith('javax.')
isSystemClassName(fullClassName) ==
    startsWith(fullClassName, s_java_) \/ startsWith(fullClassName, s_javax_)

\* Line 250: line.match(/^\d+:/) || line.startsWith('/')
isBytecodeLine(line) ==
    LET e == runEnd(line, 1, Digits) IN
    \/ e > 1 /\ occursAt(line, <<":">>, e)
    \/ startsWith(line, <<"/">>)

\* Lines 240-287: the body of the forEach for one line of the text.
parseJavapLine(ci, rawLine, isSystemClass) ==
    LET line == trim(rawLine) IN
    IF line = <<>> \/ line = s_Code
    THEN [ci EXCEPT !.inCodeBlock = (line = s_Code)]
    ELSE IF ci.inCodeBlock /\ isBytecodeLine(line) THEN ci
    ELSE IF includes(line, s_class)
    THEN IF classMatch(line) # <<>>
         THEN [ci EXCEPT
                 !.modifiers = SelectSeq(split(trim(split(line, s_class)[1]), SP),
                                         nonEmpty),
                 !.extends = classMatch(line)]
         ELSE ci
    ELSE IF isSystemClass THEN ci
    ELSE IF isMemberLine(line)
    THEN IF includes(line, LPAR)
         THEN LET method == parseJavapMethod(line) IN
              IF method.name # EmptyString
              THEN [ci EXCEPT !.methods = Append(@, method)] ELSE ci
         ELSE LET field == parseJavapField(line) IN
              IF field.name # EmptyString
              THEN [ci EXCEPT !.fields = Append(@, field)] ELSE ci
    ELSE ci

RECURSIVE parseJavapLines(_, _, _)
parseJavapLines(ci, lines, isSystemClass) ==
    IF lines = <<>> THEN ci
    ELSE parseJavapLines(parseJavapLine(ci, Head(lines), isSystemClass),
                         Tail(lines), isSystemClass)

\* JavaCodeParser.parseJavapOutput on the lines of output.split('\n')
parseJavapOutputText(lines, fullClassName) ==
    parseJavapLines(JavapClassInfo(last(split(fullClassName, DOT)),
                                   packageNameOf(fullClassName)),
                    lines, isSystemClassName(fullClassName))

\* The class line javap prints; ext is '' for a class without extends clause.
javapClassLine(mods, name, ext) ==
    join(mods \o <<s_class, name>>
           \o (IF ext # EmptyString THEN <<s_extends, ext>> ELSE <<>>)
           \o <<s_brace>>, SP)

\* Lines of the body of a javap text: members, a Code: section, a blank line.
BodyLines ==
    { SP \o SP \o javapMethodLine(MemberDecl(<<s_public>>, EmptyString, n_lib_P, <<>>, TRUE)),
      SP \o SP \o javapMethodLine(MemberDecl(<<s_public>>, s_void, s_run, <<s_int>>, FALSE)),
      SP \o SP \o javapMethodLine(MemberDecl(<<s_public, s_static>>, n_java_lang_String,
                                             s_print, <<>>, FALSE)),
      SP \o SP \o join(<<s_public, s_int, s_count>>, SP) \o SEMI,
      SP \o SP \o SP \o SP \o s_Code,
      SP \o SP \o SP \o SP \o SP \o SP \o <<"0", ":">> \o SP \o s_aload_0,
      <<>> }

\* Longest body of a javap text.
MaxBody == 2

\* The texts javap prints for the class n.
JavapTexts(n) ==
    { << s_Compiled, javapClassLine(mods, n, ext) >> \o body \o << <<"}">> >> :
        mods \in { <<s_public>>, <<s_public, s_abstract>>, <<s_public, s_final>> },
        ext \in { EmptyString, n_java_lang_Throwable },
        body \in UNION { [1..k -> BodyLines] : k \in 0..MaxBody } }

TargetNames == { n_java_lang_Exception, n_javax_swing_JApplet, n_lib_P }

\* parseJavapOutput applied to a javap text for a target name.
ParseJavapOutput ==
    /\ px = NoCall
    /\ \E n \in TargetNames : \E text \in JavapTexts(n) :
         px' = [op |-> "parseJavapOutput", text |-> text, fullClassName |-> n,
                out |-> parseJavapOutputText(text, n)]
    /\ UNCHANGED <<files, javapOk, rootFile, reqState, rejectedBy, stack, heap,
                   result, calls, lookups, truncated, processedClasses, puml,
                   saved, errorShown, tmpDir, reqs>>

----------------------------------------------------------------------------
(* PlantUMLGenerator.generateClassDefinition with the lines of its body *)

s_A == <<"A">>
s_I == <<"I">>
s_Deprecated == <<"@", "D", "e", "p", "r", "e", "c", "a", "t", "e", "d">>
n_lib == <<"l", "i", "b">>
n_java_lang == <<"j", "a", "v", "a", ".", "l", "a", "n", "g">>
n_javax_swing == <<"j", "a", "v", "a", "x", ".", "s", "w", "i", "n", "g">>

s_Indent == SP \o SP \o SP \o SP
s_staticTag == <<"{", "s", "t", "a", "t", "i", "c", "}", " ">>
s_implements == <<" ", "i", "m", "p", "l", "e", "m", "e", "n", "t", "s", " ">>
s_brace_open == <<" ", "{">>
s_abstract_class == <<"a", "b", "s", "t", "r", "a", "c", "t", " ", "c", "l", "a", "s", "s">>

\* The line `    ..System Class..`
SystemMarker == s_Indent \o <<".", ".", "S", "y", "s", "t", "e", "m", " ", "C", "l", "a", "s", "s", ".", ".">>

\* A renderer that takes no class for a system class.
isSystemPackageName_never(packageName) == FALSE

\* Line 120: packageName?.startsWith('java.') || packageName?.startsWith('javax.')
isSystemPackageName(packageName) ==
    startsWith(packageName, s_java_) \/ startsWith(packageName, s_javax_)

\* PlantUMLGenerator.getVisibilitySymbol, on texts
getVisibilitySymbolText(modifiers) ==
    IF s_private \in Range(modifiers) THEN <<"-">>
    ELSE IF s_protected \in Range(modifiers) THEN <<"#">>
    ELSE IF s_public \in Range(modifiers) THEN <<"+">>
    ELSE <<"~">>

\* field.modifiers.includes('static') ? '{static} ' : ''
isStaticText(modifiers) ==
    IF s_static \in Range(modifiers) THEN s_staticTag ELSE EmptyString

\* PlantUMLGenerator.generateField: the lines of its text
generateFieldText(field) ==
    << s_Indent \o getVisibilitySymbolText(field.modifiers)
         \o isStaticText(field.modifiers) \o field.type \o SP \o field.name >>

hasTypeText(p) == p.type # EmptyString

\* `${p.type} ${p.name}`.trim()
parameterText(p) == trim(p.type \o SP \o p.name)

RECURSIVE parameterTexts(_)
parameterTexts(ps) ==
    IF ps = <<>> THEN <<>>
    ELSE <<parameterText(Head(ps))>> \o parameterTexts(Tail(ps))

\* PlantUMLGenerator.generateMethod: the lines of its text, none for a
\* method without a name
generateMethodText(method) ==
    IF method.name = EmptyString THEN <<>>
    ELSE << s_Indent \o getVisibilitySymbolText(method.modifiers)
              \o isStaticText(method.modifiers) \o method.returnType \o SP
              \o method.name \o LPAR
              \o join(parameterTexts(SelectSeq(method.parameters, hasTypeText)),
                      COMMA \o SP)
              \o RPAR >>

RECURSIVE fieldLines(_)
\* classInfo.fields.forEach(field => result += this.generateField(field))
fieldLines(fields) ==
    IF fields = <<>> THEN <<>>
    ELSE generateFieldText(Head(fields)) \o fieldLines(Tail(fields))

RECURSIVE methodLines(_)
\* classInfo.methods.forEach(method => result += this.generateMethod(method))
methodLines(methods) ==
    IF methods = <<>> THEN <<>>
    ELSE generateMethodText(Head(methods)) \o methodLines(Tail(methods))

\* classInfo.implements, [] when the descriptor has none (javap descriptors)
implementsOf(ci) == IF "implements" \in DOMAIN ci THEN ci.implements ELSE <<>>

\* PlantUMLGenerator.generateClassDefinition: the lines of the block, kept
\* in the three parts the code appends one after the other: the annotation
\* lines, the head line `<classType> <name>[ implements ...] {` and the body
\* lines before the closing brace.
generateClassDefinitionText(ci) ==
    LET isSystemClass == isSystemPackageName(ci.packageName)
        classType == IF s_abstract \in Range(ci.modifiers)
                     THEN s_abstract_class ELSE s_class
    IN
    [annotations |-> IF ~isSystemClass THEN ci.annotations ELSE <<>>,
     head |-> classType \o SP \o ci.name
              \o (IF ~isSystemClass /\ implementsOf(ci) # <<>>
                  THEN s_implements \o join(implementsOf(ci), COMMA \o SP)
                  ELSE EmptyString)
              \o s_brace_open,
     body |-> IF isSystemClass THEN <<SystemMarker>>
              ELSE fieldLines(ci.fields) \o methodLines(ci.methods)]

\* A descriptor as JSON.parse of the Parser output gives it, pkg being ''
\* for it (the JSON has no packageName), or one built with a package.
SourceClassInfo(name, pkg, mods, annotations, fields, methods, impl) ==
    [name |-> name, packageName |-> pkg, modifiers |-> mods,
     extends |-> EmptyString, fields |-> fields, methods |-> methods,
     annotations |-> annotations, implements |-> impl]

MemberChoices ==
    { [fields |-> <<>>, methods |-> <<>>],
      [fields |-> << FieldInfo(s_count, s_int, <<s_private>>) >>,
       methods |-> <<>>],
      [fields |-> << FieldInfo(s_count, s_int, <<s_private, s_static>>) >>,
       methods |-> << MethodInfo(s_run, s_void, <<s_public>>, <<>>),
                      MethodInfo(EmptyString, s_void, <<s_public>>, <<>>),
                      MethodInfo(s_print, s_void, <<s_protected>>,
                                 << ParameterInfo(EmptyString, s_int) >>) >>] }

PackageChoices == { EmptyString, n_lib, n_java_lang, n_javax_swing }

\* The descriptors given to the renderer with a given package, annotations
\* and members.
BuiltInputs ==
    { [ci |-> SourceClassInfo(s_A, pkg, mods, an, mc.fields, mc.methods, impl),
       origin |-> IF pkg = EmptyString THEN "source" ELSE "built"] :
        pkg \in PackageChoices,
        mods \in { <<s_public>>, <<s_public, s_abstract>> },
        an \in { <<>>, <<s_Deprecated>> },
        mc \in MemberChoices,
        impl \in { <<>>, <<s_I>> } }

\* The call of generateClassDefinition on the descriptor ci.
rendered(ci, origin) ==
    [op |-> "generateClassDefinition", ci |-> ci, origin |-> origin,
     out |-> generateClassDefinitionText(ci)]

\* generateClassDefinition applied to the descriptor parseJavapOutput has
\* returned, or to one with a given package, annotations and members.
GenerateClassDefinition ==
    /\ \/ /\ px.op = "parseJavapOutput"
          /\ px' = rendered(px.out, "javap")
       \/ /\ px = NoCall
          /\ \E in \in BuiltInputs : px' = rendered(in.ci, in.origin)
    /\ UNCHANGED <<files, javapOk, rootFile, reqState, rejectedBy, stack, heap,
                   result, calls, lookups, truncated, processedClasses, puml,
                   saved, errorShown, tmpDir, reqs>>

\* One of the pure functions applied once to arguments of bounded sets,
\* while no request runs.
PureInit ==
    /\ files = [f \in FileNames |-> NoFile]
    /\ javapOk = {}
    /\ NoRequest
    /\ px = NoCall
    /\ tmpDir = NoTempDir
    /\ reqs = <<>>

PureNext ==
    \/ RenderMembers
    \/ ParseJavapMethod
    \/ ParseJavapOutput
    \/ GenerateClassDefinition

PureSpec == PureInit /\ [][PureNext]_vars

----------------------------------------------------------------------------
(* Properties *)

RECURSIVE sumSeq(_)
sumSeq(q) == IF q = <<>> THEN 0 ELSE Head(q) + sumSeq(Tail(q))

Count(q, x) == Cardinality({ i \in 1..Len(q) : q[i] = x })

ParseOver == reqState \notin {"idle", "parsing"}
RootFileState == IF rootFile = Unset THEN "absent" ELSE files[rootFile].state

\* The descriptors of the chain that parse returned, root first.
ResultChain == [k \in 1..Len(Chain(heap, result)) |-> heap[Chain(heap, result)[k]]]

\* The namespaces of the fallback list, in the order the documentation gives.
NamespaceOrder ==
    << <<"java", "lang">>, <<"java", "util">>, <<"java", "io">>,
       <<"java", "applet">>, <<"javax", "swing">>, <<"java", "awt">>,
       <<"java", "net">>, <<"java", "sql">>, <<"javax", "servlet">>,
       <<"java", "math">>, <<"java", "security">>, <<"java", "text">>,
       <<"java", "time">> >>

\* The candidates of an ancestor name in their documented order.
FallbackOrder(ext) ==
    (IF ext = <<"Applet">> THEN << JavaAppletApplet >> ELSE <<>>)
    \o << ext >>
    \o [i \in 1..Len(NamespaceOrder) |-> NamespaceOrder[i] \o <<getSimpleClassName(ext)>>]

\* The collaborators fail on the ancestor link of descriptor d: its sibling
\* file is unparsable, or there is no sibling file and javap rejects every
\* candidate, or d is a system ancestor and javap rejects its extends.
LinkFails(d) ==
    /\ d.srcExtends # Unset
    /\ IF d.origin = "source"
       THEN \/ findProjectClass(d.srcExtends).state = "bad"
            \/ /\ findProjectClass(d.srcExtends).state = "absent"
               /\ \A i \in 1..Len(FallbackOrder(d.srcExtends)) :
                     ~execJavap(FallbackOrder(d.srcExtends)[i])
       ELSE d.srcExtends # JavaLangObject /\ ~execJavap(d.srcExtends)

\* C1: when the structured parse of the root class succeeded, parse never
\* rejects whatever the collaborators do on the ancestor links: once it is
\* over it has returned a descriptor, and every link of the returned chain on
\* which the collaborators failed has no parentClass.
C1_AncestorFailuresAbsorbed ==
    (RootFileState = "ok" /\ ParseOver) =>
        /\ rejectedBy # "parse"
        /\ result # NoObj
        /\ \A k \in 1..Len(ResultChain) :
              LinkFails(ResultChain[k]) => ResultChain[k].parentClass = NoObj

C1_Witness ==
    /\ reqState = "parsed"
    /\ RootFileState = "ok"
    /\ heap[result].srcExtends = <<"B">>
    /\ files[<<"B">>].state = "bad"
    /\ heap[result].parentClass = NoObj

\* C2: chain building terminates: a request that is parsing eventually leaves
\* parse (with a descriptor or a rejection), also for a class that extends
\* itself and for javap answers that form a cycle.
C2_ParseTerminates == (reqState = "parsing") ~> (reqState # "parsing")

\* The root descriptor of the running request is the first one created.
RootLinks == IF heap = <<>> THEN 0 ELSE Len(Chain(heap, 1)) - 1

\* C3: the parentClass chain hanging off the root descriptor never has more
\* than 10 links.
C3_ChainWithinDepthBound == RootLinks <= DepthBound

\* The fallback calls made for the ancestor link of descriptor id, in order.
LinkCalls(id) == SelectSeq(calls, LAMBDA c : c.link = id /\ c.phase # "walk")

FirstResolving(ext) ==
    LET c == FallbackOrder(ext)
        ok == { i \in 1..Len(c) : execJavap(c[i]) }
    IN IF ok = {} THEN 0 ELSE CHOOSE i \in ok : \A j \in ok : i <= j

\* C4: for an ancestor without project-local source the candidates are tried
\* in the documented order (a prefix of it, every call but the last a
\* failure), and once resolution is over the parent is the descriptor of the
\* first candidate of that order that javap resolves and extends is that name.
C4_FallbackOrder ==
    /\ ~truncated =>
         \A id \in 1..Len(heap) :
            (heap[id].origin = "source" /\ heap[id].srcExtends # Unset) =>
               LET tried == LinkCalls(id)
                   order == FallbackOrder(heap[id].srcExtends)
               IN /\ Len(tried) <= Len(order)
                  /\ \A k \in 1..Len(tried) :
                        /\ tried[k].name = order[k]
                        /\ k < Len(tried) => ~tried[k].ok
    /\ (ParseOver /\ result # NoObj) =>
         \A k \in 1..Len(ResultChain) :
            LET d == ResultChain[k] IN
            (/\ d.origin = "source"
             /\ d.srcExtends # Unset
             /\ findProjectClass(d.srcExtends).state = "absent") =>
               LET w == FirstResolving(d.srcExtends) IN
               IF w = 0 THEN d.parentClass = NoObj
               ELSE LET n == FallbackOrder(d.srcExtends)[w] IN
                    /\ d.extends = n
                    /\ d.parentClass # NoObj
                    /\ heap[d.parentClass].origin = "javap"
                    /\ heap[d.parentClass].name = getSimpleClassName(n)
                    /\ heap[d.parentClass].packageName = packageOf(n)
                    /\ heap[d.parentClass].srcExtends = JavapLine(n).ext

\* A link won by a candidate that is neither the first nor the literal name.
C4_Witness ==
    /\ reqState = "parsed"
    /\ heap[result].srcExtends = <<"Exception">>
    /\ heap[result].extends = <<"java", "lang", "Exception">>
    /\ Len(LinkCalls(result)) = 2
    /\ heap[result].parentClass # NoObj

\* C5: in the generated text no type name has two definition blocks.
C5_NoDuplicateDefinition ==
    puml.made =>
        \A i, j \in 1..Len(puml.defs) :
            puml.defs[i].name = puml.defs[j].name => i = j

\* Two classes of the chain implement the same interface.
C5_Witness ==
    /\ puml.made
    /\ Len(ResultChain) = 2
    /\ <<"I">> \in Range(ResultChain[1].implements)
    /\ <<"I">> \in Range(ResultChain[2].implements)
    /\ \E i \in 1..Len(puml.defs) :
          puml.defs[i].kind = "interface" /\ puml.defs[i].name = "I"

\* C6: a failure of the structured parse of the root class rejects parse, no
\* diagram is generated or saved and the handler reports the error; no other
\* failure of resolution rejects parse.
C6_RootFailureReported ==
    /\ (RootFileState = "bad" /\ ParseOver) =>
          /\ rejectedBy = "parse"
          /\ reqState \in {"rejected", "error"}
          /\ ~puml.made
          /\ ~saved
          /\ reqState = "error" => errorShown
    /\ rejectedBy = "parse" => RootFileState = "bad"

C6_Witness ==
    /\ reqState = "error"
    /\ rejectedBy = "parse"
    /\ errorShown
    /\ ~puml.made

\* The extends/implements relations of descriptor d as (supertype, subtype).
RelationsOf(d) ==
    (IF d.extends # Unset THEN << <<getSimpleClassName(d.extends), d.name>> >> ELSE <<>>)
    \o [i \in 1..Len(d.implements) |-> <<getSimpleClassName(d.implements[i]), d.name>>]

LinePairs == [i \in 1..Len(puml.rels) |-> <<puml.rels[i].sup, puml.rels[i].sub>>]

\* C7: the relationship lines are exactly the extends/implements relations
\* of the descriptors of the chain, one line per relation: every pair of
\* names occurs as often among the lines as among the relations.
C7_OneLinePerRelation ==
    puml.made =>
        /\ Len(puml.rels) =
              sumSeq([k \in 1..Len(ResultChain) |-> Len(RelationsOf(ResultChain[k]))])
        /\ \A pr \in Range(LinePairs)
                     \cup UNION { Range(RelationsOf(ResultChain[k])) : k \in 1..Len(ResultChain) } :
              Count(LinePairs, pr) =
                 sumSeq([k \in 1..Len(ResultChain) |-> Count(RelationsOf(ResultChain[k]), pr)])

C7_Witness ==
    /\ puml.made
    /\ Len(ResultChain) >= 2
    /\ Len(ResultChain[1].implements) = 2
    /\ ResultChain[2].extends # Unset
    /\ Len(puml.rels) >= 4

\* The index of the extends line of the k-th descriptor of the chain among
\* the relationship lines (its implements lines follow it).
FirstLineOf(k) ==
    1 + sumSeq([j \in 1..(k - 1) |-> Len(RelationsOf(ResultChain[j]))])

ImplementsLinesDashed ==
    \A k \in 1..Len(ResultChain) :
       LET d == ResultChain[k]
           e == IF d.extends # Unset THEN 1 ELSE 0
       IN \A i \in 1..Len(d.implements) :
             puml.rels[FirstLineOf(k) - 1 + e + i].arrow = "<|.."

\* C8 as stated: an extends edge is solid when the supertype was resolved from
\* project-local source and dashed when it was resolved through the system
\* resolver; every implements edge is dashed.
C8_ArrowByResolver ==
    puml.made =>
        /\ \A k \in 1..Len(ResultChain) :
              LET d == ResultChain[k] IN
              /\ d.parentVia = "project" => puml.rels[FirstLineOf(k)].arrow = "<|--"
              /\ d.parentVia = "system" => puml.rels[FirstLineOf(k)].arrow = "<|.."
        /\ ImplementsLinesDashed

\* C8 amended: an extends edge is dashed exactly when the extends value of the
\* subclass, as resolution left it, starts with java. or javax., and solid
\* otherwise; so it is dashed whenever the system resolver rewrote extends to
\* a candidate of the namespace list, and solid for a supertype found under a
\* simple or otherwise prefixed name. Every implements edge is dashed.
C8_ArrowByExtendsPrefix ==
    puml.made =>
        /\ \A k \in 1..Len(ResultChain) :
              LET d == ResultChain[k] IN
              d.extends # Unset =>
                /\ puml.rels[FirstLineOf(k)].sub = d.name
                /\ puml.rels[FirstLineOf(k)].arrow =
                      (IF startsWithJava(d.extends) THEN "<|.." ELSE "<|--")
                /\ (d.parentVia = "system" /\ d.extends # d.srcExtends)
                      => puml.rels[FirstLineOf(k)].arrow = "<|.."
                /\ (d.parentVia = "project" /\ ~includesDot(d.extends))
                      => puml.rels[FirstLineOf(k)].arrow = "<|--"
        /\ ImplementsLinesDashed

\* A chain with a project-local link (solid), a link resolved under a
\* java.lang candidate (dashed) and an implements edge.
C8_Witness ==
    /\ puml.made
    /\ Len(ResultChain) >= 3
    /\ ResultChain[1].parentVia = "project"
    /\ ResultChain[2].parentVia = "system"
    /\ startsWithJava(ResultChain[2].extends)
    /\ Len(ResultChain[1].implements) > 0
    /\ puml.rels[1].arrow = "<|--"

RootIsAExtendsException ==
    /\ rootFile = <<"A">>
    /\ files[rootFile].state = "ok"
    /\ files[rootFile].name = "A"
    /\ files[rootFile].extends = <<"Exception">>
    /\ findProjectClass(<<"Exception">>).state = "absent"
    /\ execJavap(<<"java", "lang", "Exception">>)

HasDefinition(n) == \E i \in 1..Len(puml.defs) : puml.defs[i].name = n

\* C9 as stated: for A extends Exception without sibling Exception.java, with
\* javap resolving java.lang.Exception, parse does not reject, A.extends is the
\* first resolving candidate, and the diagram has a definition block for that
\* ancestor and a dashed relationship line from it to A.
C9_ExceptionDashed ==
    (RootIsAExtendsException /\ ParseOver) =>
        /\ rejectedBy # "parse"
        /\ heap[result].extends =
              FallbackOrder(<<"Exception">>)[FirstResolving(<<"Exception">>)]
        /\ puml.made =>
              /\ HasDefinition(getSimpleClassName(heap[result].extends))
              /\ Line(getSimpleClassName(heap[result].extends), "<|..", "A")
                    \in Range(puml.rels)

\* C9 amended: the relationship line is dashed when javap rejects the literal
\* name Exception, so that the first resolving candidate is
\* java.lang.Exception; when javap resolves the literal name, extends stays
\* Exception and the line from the ancestor to A is solid.
C9_ExceptionByFirstCandidate ==
    (RootIsAExtendsException /\ ParseOver) =>
        /\ rejectedBy # "parse"
        /\ heap[result].extends =
              FallbackOrder(<<"Exception">>)[FirstResolving(<<"Exception">>)]
        /\ heap[result].extends =
              (IF execJavap(<<"Exception">>) THEN <<"Exception">>
               ELSE <<"java", "lang", "Exception">>)
        /\ heap[result].parentClass # NoObj
        /\ puml.made =>
              /\ HasDefinition("Exception")
              /\ Count(puml.rels,
                       Line("Exception",
                            IF execJavap(<<"Exception">>) THEN "<|--" ELSE "<|..",
                            "A")) = 1
              /\ Count(LinePairs, <<"Exception", "A">>) = 1

C9_Witness ==
    /\ RootIsAExtendsException
    /\ ~execJavap(<<"Exception">>)
    /\ puml.made
    /\ heap[result].extends = <<"java", "lang", "Exception">>
    /\ Line("Exception", "<|..", "A") \in Range(puml.rels)

RootIsAExtendsLocalB ==
    /\ rootFile = <<"A">>
    /\ files[rootFile].state = "ok"
    /\ files[rootFile].name = "A"
    /\ files[rootFile].extends = <<"B">>
    /\ files[<<"B">>].state = "ok"
    /\ files[<<"B">>].name = "B"

DefinitionsOf(n) == { i \in 1..Len(puml.defs) : puml.defs[i].name = n }

\* C10: for A extends B with sibling B.java parsing to class B, the diagram
\* has one definition block for A, a distinct one for B, and exactly one
\* relationship line between the two, the solid line B <|-- A.
C10_LocalParentSolid ==
    (RootIsAExtendsLocalB /\ puml.made) =>
        /\ Cardinality(DefinitionsOf("A")) = 1
        /\ Cardinality(DefinitionsOf("B")) = 1
        /\ DefinitionsOf("A") # DefinitionsOf("B")
        /\ \A i \in DefinitionsOf("A") \cup DefinitionsOf("B") :
              puml.defs[i].kind \in {"class", "abstract class"}
        /\ Count(puml.rels, Line("B", "<|--", "A")) = 1
        /\ Count(LinePairs, <<"B", "A">>) + Count(LinePairs, <<"A", "B">>) = 1

C10_Witness ==
    /\ RootIsAExtendsLocalB
    /\ puml.made
    /\ Len(ResultChain) >= 2
    /\ ResultChain[2].name = "B"
    /\ Line("B", "<|--", "A") \in Range(puml.rels)

ClassKinds == {"class", "abstract class"}
ClassBlocks == { i \in 1..Len(puml.defs) : puml.defs[i].kind \in ClassKinds }

RootNoExtends ==
    /\ rootFile # Unset
    /\ files[rootFile].state = "ok"
    /\ files[rootFile].extends = Unset

\* C11: for a root class whose extends is unset, chain building makes no
\* filesystem lookup and no javap call and returns a descriptor without a
\* parentClass (a chain of depth 1), and the diagram holds exactly one class
\* definition block and no extends line (its lines are those of implements).
C11_NoExtendsMinimalDiagram ==
    RootNoExtends =>
        /\ lookups = <<>>
        /\ calls = <<>>
        /\ ParseOver =>
             /\ result # NoObj
             /\ heap[result].parentClass = NoObj
             /\ Len(Chain(heap, result)) = 1
        /\ puml.made =>
             /\ Cardinality(ClassBlocks) = 1
             /\ Len(puml.rels) = Len(heap[result].implements)
             /\ \A i \in 1..Len(puml.rels) :
                  puml.rels[i] = Line(getSimpleClassName(heap[result].implements[i]),
                                      "<|..", heap[result].name)

C11_Witness ==
    /\ RootNoExtends
    /\ puml.made
    /\ Len(heap[result].implements) = 2
    /\ \E f \in FileNames : f # rootFile /\ files[f].state = "ok"

\* The descriptor at the end of the returned chain, when its ancestor is
\* unresolved: extends set, parentClass absent.
ChainEnd == heap[Chain(heap, result)[Len(Chain(heap, result))]]
UnresolvedEnd ==
    /\ puml.made
    /\ ~truncated
    /\ ChainEnd.extends # Unset
    /\ ChainEnd.parentClass = NoObj

PlaceholderBlocks(n) ==
    { i \in 1..Len(puml.defs) :
        /\ puml.defs[i].name = n
        /\ puml.defs[i].kind = "class"
        /\ puml.defs[i].body = "empty"
        /\ puml.defs[i].impl = <<>> }

\* C12 (as claimed): a descriptor with extends set and no parentClass yields
\* an empty placeholder class block for the simple name of its ancestor,
\* tagged <<system>> when that name is Applet.
C12_PlaceholderTaggedApplet ==
    UnresolvedEnd =>
        LET n == getSimpleClassName(ChainEnd.extends) IN
        /\ PlaceholderBlocks(n) # {}
        /\ n = "Applet" =>
             \A i \in PlaceholderBlocks(n) : puml.defs[i].tag = "<<system>>"

\* C12 (amended): the placeholder block is there unless a class of the
\* chain already has that simple name, and it is tagged <<system>> exactly
\* when the extends value is a qualified name that ends in Applet; the bare
\* name Applet, left as it was when no candidate resolved, gets an untagged
\* block.
C12_PlaceholderTaggedQualifiedApplet ==
    UnresolvedEnd =>
        LET e == ChainEnd.extends
            n == getSimpleClassName(e)
        IN
        /\ IF \E k \in 1..Len(ResultChain) : ResultChain[k].name = n
           THEN PlaceholderBlocks(n) = {}
           ELSE Cardinality(PlaceholderBlocks(n)) = 1
        /\ \A i \in PlaceholderBlocks(n) :
             (puml.defs[i].tag = "<<system>>") = (n = "Applet" /\ Len(e) > 1)
        /\ \A i \in PlaceholderBlocks(n) :
             puml.defs[i].tag \in {"", "<<system>>"}

C12_Witness ==
    /\ UnresolvedEnd
    /\ ChainEnd.extends = JavaAppletApplet
    /\ \E i \in 1..Len(puml.defs) :
         puml.defs[i].name = "Applet" /\ puml.defs[i].tag = "<<system>>"

AccessModifiers == {"public", "protected", "private"}
AccessOf(mods) == Range(mods) \cap AccessModifiers

\* The symbol the claim gives to a modifier list with at most one access
\* modifier.
SymbolOf(acc) ==
    [a \in {"private", "protected", "public", "none"} |->
        CASE a = "private" -> "-" [] a = "protected" -> "#"
          [] a = "public" -> "+" [] OTHER -> "~"][acc]

\* C13: the visibility symbol of a member is - for private, # for protected,
\* + for public and ~ when the modifier list holds no access modifier, and a
\* field and a method with the same modifier list get the same symbol (a list
\* that names several access modifiers, which Java does not allow, is read
\* in the order private, protected, public).
C13_VisibilitySymbol ==
    px.op = "render" =>
        LET acc == AccessOf(px.modifiers)
            sym == px.field[1].vis
        IN
        /\ Len(px.field) = 1
        /\ acc = {} => sym = "~"
        /\ \A a \in AccessModifiers : acc = {a} => sym = SymbolOf(a)
        /\ "private" \in acc => sym = "-"
        /\ acc = {"protected", "public"} => sym = "#"
        /\ \A i \in 1..Len(px.method) : px.method[i].vis = sym

C13_Witness ==
    /\ px.op = "render"
    /\ AccessOf(px.modifiers) = {}
    /\ "static" \in Range(px.modifiers)
    /\ Len(px.method) = 1
    /\ px.method[1].vis = "~"
    /\ px.field[1].vis = "~"

IsParsedMethod == px.op = "parseJavapMethod"

\* The types of the parameters of a parsed method, in their order.
TypesOf(ps) == [i \in 1..Len(ps) |-> ps[i].type]

\* C14: parsing the javap line of a constructor (the method name is the
\* name of the class) yields a method named by the simple class name with an
\* empty return type, whatever modifiers precede; every parameter of a
\* parsed method has an empty name and the parameter types keep their
\* declared order.
C14_ConstructorParsed ==
    IsParsedMethod /\ isMemberLine(px.line) =>
        /\ px.decl.ctor =>
             /\ px.out.name = last(split(px.decl.name, DOT))
             /\ px.out.returnType = EmptyString
        /\ \A i \in 1..Len(px.out.parameters) :
             px.out.parameters[i].name = EmptyString
        /\ TypesOf(px.out.parameters) = px.decl.params

\* The text of the returned descriptor rendered with no name emitted before.
RenderedAlone == generateClassDiagram(heap, result, {})

\* C15: every call of generateClassDiagram starts from an empty set of
\* emitted names: whatever requests were rendered before, the text for a
\* descriptor is the text of rendering it alone, and it begins with the
\* block of the descriptor itself.
C15_RenderIndependent ==
    puml.made =>
        /\ puml.defs = RenderedAlone.defs
        /\ puml.rels = RenderedAlone.rels
        /\ processedClasses = RenderedAlone.processed
        /\ puml.defs # <<>>
        /\ puml.defs[1].name = heap[result].name

C15_Witness ==
    /\ puml.made
    /\ heap[result].name \in puml.before
    /\ Cardinality(puml.before) >= 3
    /\ puml.before # processedClasses

\* What a request yields when it runs alone.
AloneOutcome(src) ==
    IF src.state = "ok"
    THEN Outcome("ok", <<fromSource(src)>>,
                 generateClassDiagram(<<fromSource(src)>>, 1, {}).defs)
    ELSE Rejected

\* C16: the steps of two requests interleave at the awaits, and no step of
\* one request, the creation and the removal of the temp files of
\* parseClass included, changes what the other yields: every request ends
\* with the outcome it has when it runs alone.
C16_RequestsIndependent ==
    \A r \in DOMAIN reqs :
        reqs[r].pc = "done" => reqs[r].out = AloneOutcome(reqs[r].src)

\* The frames below the running one wait at line 61 for the parse they
\* called: none of them is inside a javap call.
OnlyTopFrameRuns ==
    \A k \in 1..(Len(stack) - 1) : stack[k].pc = "awaitParent"

\* C17: javap is invoked one call at a time: only the running frame can be
\* at a javap call, a candidate of a link is invoked only after the call of
\* the candidate before it has failed, and after a candidate of a link has
\* succeeded no further candidate of that link is invoked.
C17_CandidatesOneByOne ==
    /\ OnlyTopFrameRuns
    /\ ~truncated =>
         /\ \A i \in 2..Len(calls) :
              calls[i].link = calls[i - 1].link => ~calls[i - 1].ok
         /\ \A i, j \in 1..Len(calls) :
              (i < j /\ calls[i].link = calls[j].link) => ~calls[i].ok

C17_Witness ==
    /\ ParseOver
    /\ ~truncated
    /\ \E i \in 2..(Len(calls) - 1) :
         /\ calls[i].ok
         /\ calls[i].phase = "loop"
         /\ calls[i - 1].link = calls[i].link
         /\ ~calls[i - 1].ok
         /\ calls[i + 1].phase = "walk"
         /\ calls[i + 1].link # calls[i].link

\* The sibling file <name>.java of the directory of the request.
SiblingOf(name) == IF name \in DOMAIN files THEN files[name] ELSE NoFile

SourceIds == { id \in 1..Len(heap) : heap[id].origin = "source" }
CallsFor(id) == { i \in 1..Len(calls) : calls[i].link = id }
LookupsFor(id) == { i \in 1..Len(lookups) : lookups[i].link = id }

JavapIds == { id \in 1..Len(heap) : heap[id].origin = "javap" }

\* C19: once a system ancestor is resolved, every further ancestor is asked
\* of javap only, never of the filesystem, each under the exact extends name
\* of its child and once; the walk never asks for java.lang.Object: it stops
\* there and leaves the last descriptor with extends set and no parentClass.
C19_WalkBySystemResolverOnly ==
    ~truncated =>
      /\ \A i \in 1..Len(calls) :
           calls[i].phase = "walk" =>
             /\ calls[i].name # JavaLangObject
             /\ calls[i].link \in JavapIds
      /\ \A id \in JavapIds :
           LET d == heap[id] IN
           /\ LookupsFor(id) = {}
           /\ Cardinality(CallsFor(id)) <= 1
           /\ \A i \in CallsFor(id) :
                /\ calls[i].phase = "walk"
                /\ calls[i].name = d.extends
                /\ calls[i].ok = (d.parentClass # NoObj)
           /\ d.parentClass # NoObj =>
                /\ CallsFor(id) # {}
                /\ d.parentVia = "system"
                /\ heap[d.parentClass].origin = "javap"
                /\ heap[d.parentClass].name = getSimpleClassName(d.extends)
                /\ heap[d.parentClass].packageName = packageOf(d.extends)
           /\ d.extends = JavaLangObject =>
                CallsFor(id) = {} /\ d.parentClass = NoObj
           /\ (ParseOver /\ d.extends \notin {Unset, JavaLangObject}) =>
                CallsFor(id) # {}

C19_Witness ==
    /\ ParseOver
    /\ ~truncated
    /\ result # NoObj
    /\ Len(Chain(heap, result)) = 3
    /\ ChainEnd.origin = "javap"
    /\ ChainEnd.extends = JavaLangObject
    /\ ChainEnd.parentClass = NoObj
    /\ Len(lookups) = 2
    /\ calls # <<>>

IsParsedText == px.op = "parseJavapOutput"
HasSystemPrefix(n) ==
    \E k \in {5, 6} :
        Len(n) >= k /\ SubSeq(n, 1, k) \in {s_java_, s_javax_}

\* The lines of a text that declare a member.
MemberLinesOf(text) ==
    { i \in 1..Len(text) : isMemberLine(trim(text[i])) }

\* C20: whatever member lines a javap text holds, the descriptor parsed from
\* it for a target name that starts with java. or javax. has no field and
\* no method: only its name, package, modifiers and extends are populated.
C20_SystemClassHasNoMembers ==
    (IsParsedText /\ HasSystemPrefix(px.fullClassName)) =>
        /\ px.out.fields = <<>>
        /\ px.out.methods = <<>>
        /\ px.out.annotations = <<>>
        /\ px.out.name = last(split(px.fullClassName, DOT))
        /\ px.out.packageName \o DOT \o px.out.name = px.fullClassName

C20_Witness ==
    /\ IsParsedText
    /\ px.fullClassName = n_javax_swing_JApplet
    /\ Cardinality(MemberLinesOf(px.text)) = 2
    /\ px.out.extends = n_java_lang_Throwable
    /\ px.out.modifiers = <<s_public, s_abstract>>
    /\ px.out.fields = <<>>
    /\ px.out.methods = <<>>


IsRendered == px.op = "generateClassDefinition"
hasName(m) == m.name # EmptyString
endsWith(s, sub) ==
    Len(s) >= Len(sub) /\ SubSeq(s, Len(s) - Len(sub) + 1, Len(s)) = sub

\* The body lists the fields and then the named methods of the descriptor,
\* one line each, in their order.
BodyListsMembers(ci, body) ==
    LET named == SelectSeq(ci.methods, hasName) IN
    /\ Len(body) = Len(ci.fields) + Len(named)
    /\ SystemMarker \notin Range(body)
    /\ \A i \in 1..Len(ci.fields) : endsWith(body[i], SP \o ci.fields[i].name)
    /\ \A j \in 1..Len(named) :
         includes(body[Len(ci.fields) + j], SP \o named[j].name \o LPAR)

\* C21 (as stated): the block of a descriptor the disassembly produced has
\* the marker line as its whole body and no annotation line, that of a
\* descriptor of a project source lists annotations, fields and methods.
C21_MarkerByOrigin ==
    IsRendered =>
        /\ px.origin = "javap" =>
             px.out.annotations = <<>> /\ px.out.body = <<SystemMarker>>
        /\ px.origin = "source" =>
             /\ px.out.annotations = px.ci.annotations
             /\ BodyListsMembers(px.ci, px.out.body)

\* C21: the block of a descriptor whose packageName starts with java. or
\* javax. has no annotation line, no implements clause and the marker line
\* ..System Class.. as its whole body, whatever members the descriptor has;
\* the block of any other descriptor, one the disassembly produced for a
\* class of another package included, lists its annotations, its fields and
\* its named methods.
C21_MarkerByPackagePrefix ==
    IsRendered =>
        IF HasSystemPrefix(px.ci.packageName)
        THEN /\ px.out.annotations = <<>>
             /\ px.out.body = <<SystemMarker>>
             /\ ~includes(px.out.head, s_implements)
        ELSE /\ px.out.annotations = px.ci.annotations
             /\ BodyListsMembers(px.ci, px.out.body)

C21_Witness ==
    /\ IsRendered
    /\ HasSystemPrefix(px.ci.packageName)
    /\ px.ci.annotations # <<>> /\ px.ci.fields # <<>> /\ px.ci.methods # <<>>
    /\ implementsOf(px.ci) # <<>>
    /\ px.out.body = <<SystemMarker>>


\* The class-declaration line of a javap text and its words.
ClassLineOf(text) == text[2]
isClassModifier(w) == w \in {s_public, s_abstract, s_final}
DeclaredModifiers(text) == SelectSeq(split(ClassLineOf(text), SP), isClassModifier)
DeclaredExtends(text) ==
    LET ws == split(ClassLineOf(text), SP) IN
    IF \E i \in 1..(Len(ws) - 1) : ws[i] = s_extends
    THEN ws[(CHOOSE i \in 1..(Len(ws) - 1) : ws[i] = s_extends) + 1]
    ELSE EmptyString

\* A line of a Code: section, a line that starts with a numeric offset or a
\* blank line.
isSkippedLine(rawLine) ==
    LET line == trim(rawLine) IN
    line = EmptyString \/ line = s_Code \/ line[1] \in Digits
isKeptLine(rawLine) == ~isSkippedLine(rawLine)

\* The descriptor without the position of the parser in the text.
Parsed(ci) == [f \in DOMAIN ci \ {"inCodeBlock"} |-> ci[f]]

\* C22: the descriptor parsed from a javap text has the leading keywords of
\* the class-declaration line (public, abstract, final) as its modifiers
\* and the name of the extends clause, when the line has one, as extends;
\* the Code: lines, the lines that start with a numeric offset and the blank
\* lines of the text change nothing in the descriptor.
C22_ClassLineCaptured ==
    IsParsedText =>
        /\ px.out.modifiers = DeclaredModifiers(px.text)
        /\ DeclaredExtends(px.text) # EmptyString =>
             px.out.extends = DeclaredExtends(px.text)
        /\ Parsed(px.out) =
             Parsed(parseJavapOutputText(SelectSeq(px.text, isKeptLine),
                                         px.fullClassName))


ParentOf(id) == heap[id].parentClass
HasParent == { id \in 1..Len(heap) : ParentOf(id) # NoObj }

\* C23: the parentClass of a descriptor is a descriptor created after it
\* (a fresh one, so that no descriptor is reachable from itself), no
\* descriptor is the parentClass of two descriptors, nothing points to the
\* descriptor parse returns, and the chain below it lists distinct
\* descriptors and ends at one without parentClass.
C23_ChainOfFreshDescriptors ==
    ~truncated =>
      /\ \A id \in HasParent : ParentOf(id) \in (id + 1)..Len(heap)
      /\ \A i, j \in HasParent : ParentOf(i) = ParentOf(j) => i = j
      /\ ParseOver /\ result # NoObj =>
           LET c == Chain(heap, result) IN
           /\ \A id \in HasParent : ParentOf(id) # result
           /\ \A k, l \in 1..Len(c) : c[k] = c[l] => k = l
           /\ heap[c[Len(c)]].parentClass = NoObj

\* A returned chain of a project ancestor and two library ancestors.
C23_Witness ==
    /\ reqState = "parsed"
    /\ ~truncated
    /\ Len(Chain(heap, result)) >= 4
    /\ heap[Chain(heap, result)[2]].origin = "source"
    /\ heap[Chain(heap, result)[4]].origin = "javap"


AllCallsOf(id) == SelectSeq(calls, LAMBDA c : c.link = id)

\* The descriptor as the structured parse or the disassembly built it.
AsBuilt(d) ==
    [d EXCEPT !.extends = d.srcExtends, !.parentClass = NoObj,
              !.parentVia = "none"]

\* C24: a descriptor for whose ancestor javap was asked and failed on every
\* candidate keeps the extends it was built with and has no parentClass;
\* when a candidate succeeded after failed ones, the descriptor is the one a
\* first-try success gives: parentClass is the parse of the winning name and
\* extends is that name (the built value after the direct attempt and in the
\* walk); in both cases the returned root descriptor is otherwise equal to
\* the structured parse of the root file.
C24_FailedCandidatesLeaveNoTrace ==
    ~truncated =>
      /\ \A id \in 1..Len(heap) :
           LET d == heap[id]
               cs == AllCallsOf(id)
           IN
           cs # <<>> =>
             IF \A k \in 1..Len(cs) : ~cs[k].ok
             THEN d = AsBuilt(d)
             ELSE LET w == cs[Len(cs)] IN
                  /\ w.ok
                  /\ \A k \in 1..(Len(cs) - 1) : ~cs[k].ok
                  /\ d.parentClass # NoObj
                  /\ AsBuilt(heap[d.parentClass]) =
                       parseJavapOutput(JavapLine(w.name), w.name)
                  /\ d.extends = IF w.phase \in {"direct", "walk"}
                                 THEN d.srcExtends ELSE w.name
      /\ (ParseOver /\ result # NoObj) =>
           AsBuilt(heap[result]) = fromSource(files[rootFile])

\* Every candidate of the root's ancestor Applet failed: the special case,
\* the name as it is and the thirteen namespaces.
C24_Witness ==
    /\ reqState = "parsed"
    /\ ~truncated
    /\ heap[result].srcExtends = <<"Applet">>
    /\ Len(AllCallsOf(result)) = 15
    /\ \A k \in 1..15 : ~AllCallsOf(result)[k].ok
    /\ heap[result] = AsBuilt(heap[result])


\* C25: in a produced diagram both names of every relationship line have a
\* definition block and the two names of a line differ: no dangling
\* endpoint, no self-edge.
C25_RelationshipEndpointsDefined ==
    (puml.made /\ ~truncated) =>
        \A i \in 1..Len(puml.rels) :
            /\ HasDefinition(puml.rels[i].sup)
            /\ HasDefinition(puml.rels[i].sub)
            /\ puml.rels[i].sup # puml.rels[i].sub


\* C26: among the fallback calls made for one ancestor link (the Applet
\* special case, the direct attempt and the namespace loop) no candidate
\* name is given to javap twice.
C26_NoCandidateTwice ==
    ~truncated =>
        \A id \in 1..Len(heap) :
            \A i, j \in 1..Len(LinkCalls(id)) :
                LinkCalls(id)[i].name = LinkCalls(id)[j].name => i = j

====
